---- MODULE Spec2Model ----
(***************************************************************************)
(* Model of the OCLA analyzer of backends/json/ocla_analyze.cc: the        *)
(* hierarchy walk (check_unique_ocla_debug_subsystem), the probe-to-core   *)
(* mapping decoder (map_probe_core), and the analyze pipeline.             *)
(***************************************************************************)
EXTENDS Integers, Sequences, FiniteSets, TLC

VARIABLES
  design,     \* the RTLIL design: [top, modules, flat], modules in
              \* enumeration order, flat the cells of the flattened top
  pc,         \* position of the running function
  msgs,       \* the "messages" list of the json document, in posting order
  hw,         \* locals of check_unique_ocla_debug_subsystem
  mp,         \* a call of map_probe_core: its arguments and its result
  an,         \* locals of analyze, the trace of the calls execute and
              \* analyze made, the text of the log_error that ended the
              \* pass, (given) the design as analyze received it,
              \* which blackbox and flatten rewrite afterwards, and
              \* (deleted) the objects step 12 of analyze deleted
  json,       \* the output file execute opened and what analyze wrote
              \* to the stream after the messages
  sp,         \* a parameter handed to set_param: the constant or the
              \* literal, the slot, and what set_param returned
  fin         \* a call of finalize: the core, the Probe widths, the result

vars == <<design, pc, msgs, hw, mp, an, json, sp, fin>>

(***************************************************************************)
(* Bounds of the model.                                                    *)
(***************************************************************************)
MAXIMUM_SUPPORTED_PROBE_CORE == 15

NumMods == 4
MaxInst == 2
MaxCells == 4
MaxNibbles == 3
MaxFragments == 3     \* fragments of the core handed to finalize
MaxFragmentWidth == 2 \* width of one of them

(***************************************************************************)
(* Generic helpers.                                                        *)
(***************************************************************************)

\* the concatenation of the sequences ss[lo], ..., ss[hi]
RECURSIVE FlatCatRange(_, _, _)
FlatCatRange(ss, lo, hi) ==
  IF lo > hi THEN <<>>
  ELSE IF lo = hi THEN ss[lo]
  ELSE LET mid == (lo + hi) \div 2 IN
       FlatCatRange(ss, lo, mid) \o FlatCatRange(ss, mid + 1, hi)

FlatCat(ss) == FlatCatRange(ss, 1, Len(ss))

\* the sum of s[lo], ..., s[hi]
RECURSIVE SumRange(_, _, _)
SumRange(s, lo, hi) ==
  IF lo > hi THEN 0
  ELSE IF lo = hi THEN s[lo]
  ELSE LET mid == (lo + hi) \div 2 IN
       SumRange(s, lo, mid) + SumRange(s, mid + 1, hi)

SumSeq(s) == SumRange(s, 1, Len(s))

\* std::string::substr(1)
Substr1(s) == IF Len(s) <= 1 THEN "" ELSE SubSeq(s, 2, Len(s))

\* n times the character c
RECURSIVE Repeat(_, _)
Repeat(c, n) ==
  IF n <= 0 THEN "" ELSE IF n = 1 THEN c
  ELSE Repeat(c, n \div 2) \o Repeat(c, n - n \div 2)

PadLeft(s, w, c) == Repeat(c, w - Len(s)) \o s

HexDigit(n) == SubSeq("0123456789ABCDEF", n + 1, n + 1)

RECURSIVE HexRaw(_)
HexRaw(v) == IF v < 16 THEN HexDigit(v) ELSE HexRaw(v \div 16) \o HexDigit(v % 16)

\* printf's %0<w>X and %02d
Hex(v, w) == PadLeft(HexRaw(v), w, "0")
Dec2(n) == PadLeft(ToString(n), 2, "0")

\* the initial arrays uint32_t x[15] = {0} and PROBE2CORE_PARAM_INFO x[15]
Zero15 == [k \in 1..MAXIMUM_SUPPORTED_PROBE_CORE |-> 0]
NoMap15 == [k \in 1..MAXIMUM_SUPPORTED_PROBE_CORE |-> [core |-> 0, offset |-> 0]]

\* a C array read a[i], i counted from 0
At(a, i) == a[i + 1]

Msg(space, text) == [space |-> space, text |-> text]

(***************************************************************************)
(* Strings: find, find_first_not_of, stol / stoll.                         *)
(***************************************************************************)
NPos == -1

CharAt(s, i) == SubSeq(s, i + 1, i + 1)

\* std::string::find(c): the first position of c, from 0, or npos
FindFrom(s, c, i) ==
  LET hit == {j \in i..(Len(s) - 1) : CharAt(s, j) = c} IN
  IF hit = {} THEN NPos ELSE CHOOSE j \in hit : \A k \in hit : j <= k

\* std::string::find_first_not_of(chars) != npos
HasOtherThan(s, chars) == \E i \in 0..(Len(s) - 1) : CharAt(s, i) \notin chars

DecDigits == {"0", "1", "2", "3", "4", "5", "6", "7", "8", "9"}
BinDigits == {"0", "1"}

DigitValue(c) == CHOOSE v \in 0..9 : ToString(v) = c

\* s without its leading zeros, its last character kept
StripZeros(s) ==
  LET keep == {j \in 0..(Len(s) - 1) : CharAt(s, j) # "0" \/ j = Len(s) - 1} IN
  IF keep = {} THEN s
  ELSE SubSeq(s, (CHOOSE j \in keep : \A k \in keep : j <= k) + 1, Len(s))

\* s > t for two strings of decimal digits of the same length
RECURSIVE DigitsGreater(_, _)
DigitsGreater(s, t) ==
  IF s = "" THEN FALSE
  ELSE IF CharAt(s, 0) # CharAt(t, 0)
    THEN DigitValue(CharAt(s, 0)) > DigitValue(CharAt(t, 0))
    ELSE DigitsGreater(Substr1(s), Substr1(t))

LongMaxDigits == "9223372036854775807"

\* A 64-bit value is computed on four 16-bit limbs, least significant
\* first; it is kept as a number when it is below 2^31 and as its limbs
\* otherwise.
Limb == 2 ^ 16
ZeroLimbs == << 0, 0, 0, 0 >>

LimbsOfNat(n) == << n % Limb, n \div Limb, 0, 0 >>

\* l * base + d on the limbs, modulo 2^64
MulAdd(l, base, d) ==
  LET t1 == l[1] * base + d
      t2 == l[2] * base + t1 \div Limb
      t3 == l[3] * base + t2 \div Limb
      t4 == l[4] * base + t3 \div Limb
  IN << t1 % Limb, t2 % Limb, t3 % Limb, t4 % Limb >>

\* the value of the digits of s at positions lo..hi counted from the right
\* end (from 0), at most 16 binary or 4 decimal digits
GroupValue(s, base, lo, hi) ==
  SumSeq([j \in 1..(hi - lo + 1) |->
    IF lo + j - 1 < Len(s)
      THEN DigitValue(CharAt(s, Len(s) - (lo + j))) * base ^ (j - 1)
      ELSE 0])

\* the value of at most 64 binary or 19 decimal digits
DigitsLimbs(s, base) ==
  IF base = 2
    THEN [k \in 1..4 |-> GroupValue(s, 2, 16 * (k - 1), 16 * k - 1)]
    ELSE MulAdd(MulAdd(MulAdd(MulAdd(
           LimbsOfNat(GroupValue(s, 10, 16, 19)),
           10000, GroupValue(s, 10, 12, 15)),
           10000, GroupValue(s, 10, 8, 11)),
           10000, GroupValue(s, 10, 4, 7)),
           10000, GroupValue(s, 10, 0, 3))

\* the cast (uint32_t)
Cast32(l) == << l[1], l[2], 0, 0 >>

U64(l) ==
  IF l[4] = 0 /\ l[3] = 0 /\ l[2] < Limb \div 2 THEN l[2] * Limb + l[1] ELSE l


\* l > n for a number n below 2^31
LimbsGreater(l, n) ==
  \/ l[4] > 0 \/ l[3] > 0 \/ l[2] > n \div Limb
  \/ (l[2] = n \div Limb /\ l[1] > n % Limb)

\* quotient and remainder of l by ten
DivTen(l) ==
  LET t3 == (l[4] % 10) * Limb + l[3]
      t2 == (t3 % 10) * Limb + l[2]
      t1 == (t2 % 10) * Limb + l[1]
  IN [q |-> << t1 \div 10, t2 \div 10, t3 \div 10, l[4] \div 10 >>,
      r |-> t1 % 10]

RECURSIVE DecDigitsOf(_)
DecDigitsOf(l) ==
  IF l = ZeroLimbs THEN ""
  ELSE DecDigitsOf(DivTen(l).q) \o ToString(DivTen(l).r)

\* printf's %u / %lu and %08X / %016lX of a value on limbs
DecText(l) == IF l = ZeroLimbs THEN "0" ELSE DecDigitsOf(l)
HexText(l, w) ==
  IF w = 8 THEN Hex(l[2], 4) \o Hex(l[1], 4)
  ELSE Hex(l[4], 4) \o Hex(l[3], 4) \o Hex(l[2], 4) \o Hex(l[1], 4)

\* A uint32_t or uint64_t object holds a number when its value is below
\* 2^31 and the limbs of its value otherwise.
IsLimbs(v) == SubSeq(ToString(v), 1, 1) = "<"
Limbs(v) == IF IsLimbs(v) THEN v ELSE LimbsOfNat(v)

\* a == b and a < b of two unsigned values
Equal(a, b) == Limbs(a) = Limbs(b)
Less(a, b) ==
  LET x == Limbs(a)
      y == Limbs(b)
  IN \E k \in 1..4 : x[k] < y[k] /\ \A j \in (k + 1)..4 : x[j] = y[j]

\* a + b and a - b on the limbs, modulo 2^64
AddLimbs(a, b) ==
  LET t1 == a[1] + b[1]
      t2 == a[2] + b[2] + t1 \div Limb
      t3 == a[3] + b[3] + t2 \div Limb
      t4 == a[4] + b[4] + t3 \div Limb
  IN << t1 % Limb, t2 % Limb, t3 % Limb, t4 % Limb >>

SubLimbs(a, b) ==
  LET t1 == a[1] + (Limb - 1 - b[1]) + 1
      t2 == a[2] + (Limb - 1 - b[2]) + t1 \div Limb
      t3 == a[3] + (Limb - 1 - b[3]) + t2 \div Limb
      t4 == a[4] + (Limb - 1 - b[4]) + t3 \div Limb
  IN << t1 % Limb, t2 % Limb, t3 % Limb, t4 % Limb >>

\* uint32_t arithmetic: a + b, a - b and a * n for n below 2^15
Plus32(a, b) == U64(Cast32(AddLimbs(Limbs(a), Limbs(b))))
Minus32(a, b) == U64(Cast32(SubLimbs(Limbs(a), Limbs(b))))
Times32(a, n) == U64(Cast32(MulAdd(Limbs(a), n, 0)))

\* uint64_t info >> 4 and (uint32_t)(info & 0xF)
ShiftRight4(info) ==
  LET l == Limbs(info) IN
  U64(<< l[1] \div 16 + (l[2] % 16) * (Limb \div 16),
         l[2] \div 16 + (l[3] % 16) * (Limb \div 16),
         l[3] \div 16 + (l[4] % 16) * (Limb \div 16),
         l[4] \div 16 >>)
LowNibble(info) == Limbs(info)[1] % 16

\* printf's %d of a uint32_t (the value read as an int), %u / %lu, and
\* %08X / %016lX
Int32Text(v) ==
  LET l == Cast32(Limbs(v)) IN
  IF l[2] < Limb \div 2 THEN DecText(l)
  ELSE "-" \o DecText(Cast32(SubLimbs(ZeroLimbs, l)))
UIntText(v) == DecText(Limbs(v))
HexOf(v, w) == HexText(Limbs(v), w)

\* probes_sum += s[i] for i = lo..hi, in uint32_t
RECURSIVE Sum32Range(_, _, _)
Sum32Range(s, lo, hi) ==
  IF lo > hi THEN 0
  ELSE IF lo = hi THEN s[lo]
  ELSE LET mid == (lo + hi) \div 2 IN
       Plus32(Sum32Range(s, lo, mid), Sum32Range(s, mid + 1, hi))

Sum32(s) == Sum32Range(s, 1, Len(s))

\* std::stol / std::stoll of a string of digits of the base (10 or 2): they
\* throw std::invalid_argument for an empty string and std::out_of_range
\* above 2^63 - 1; the value otherwise, on limbs.
StoLL(s, base) ==
  LET d == StripZeros(s) IN
  IF s = "" THEN [thrown |-> TRUE, val |-> ZeroLimbs]
  ELSE IF base = 2 /\ Len(d) > 63 THEN [thrown |-> TRUE, val |-> ZeroLimbs]
  ELSE IF base = 10 /\ (Len(d) > Len(LongMaxDigits)
            \/ (Len(d) = Len(LongMaxDigits) /\ DigitsGreater(d, LongMaxDigits)))
    THEN [thrown |-> TRUE, val |-> ZeroLimbs]
  ELSE [thrown |-> FALSE, val |-> DigitsLimbs(d, base)]

(***************************************************************************)
(* RTLIL::Const and OCLA_Analyzer::dump_const.  A constant is              *)
(* [string, bits, str]: the CONST_FLAG_STRING flag, the bits least         *)
(* significant first as characters 0, 1, x, z, and, for a string constant, *)
(* the text decode_string() returns.                                       *)
(***************************************************************************)
RECURSIVE BitsLSB(_, _)
BitsLSB(v, w) == IF w = 0 THEN "" ELSE ToString(v % 2) \o BitsLSB(v \div 2, w - 1)

\* The characters of a string are the printable ASCII characters but the
\* grave accent, and the control characters \t, \n, \f and \r; CharCode
\* is the char value: 32..95 for the characters of Printable and 97..126 for
\* those of PrintableLower.
Printable ==
  " !\"#$%&'()*+,-./0123456789:;<=>?@ABCDEFGHIJKLMNOPQRSTUVWXYZ[\\]^_"
PrintableLower == "abcdefghijklmnopqrstuvwxyz{|}~"

PositionIn(s, c) == CHOOSE k \in 1..Len(s) : SubSeq(s, k, k) = c

CharCode(c) ==
  IF c = "\t" THEN 9
  ELSE IF c = "\n" THEN 10
  ELSE IF c = "\f" THEN 12
  ELSE IF c = "\r" THEN 13
  ELSE IF \E k \in 1..Len(Printable) : SubSeq(Printable, k, k) = c
    THEN 31 + PositionIn(Printable, c)
  ELSE 96 + PositionIn(PrintableLower, c)

\* Const(std::string): eight bits per character, least significant first,
\* the last character first
RECURSIVE StringBits(_)
StringBits(t) ==
  IF t = "" THEN ""
  ELSE IF Len(t) = 1 THEN BitsLSB(CharCode(t), 8)
  ELSE StringBits(SubSeq(t, Len(t) \div 2 + 1, Len(t)))
         \o StringBits(SubSeq(t, 1, Len(t) \div 2))

IntConst(v, w) == [string |-> FALSE, bits |-> BitsLSB(v, w), str |-> ""]
StrConst(t) == [string |-> TRUE, bits |-> StringBits(t), str |-> t]

\* data.bits.size()
ConstSize(data) == Len(data.bits)

\* Const::is_fully_undef
IsFullyUndef(data) ==
  \A i \in 0..(Len(data.bits) - 1) : CharAt(data.bits, i) \in {"x", "z"}

\* the int32_t val of the width == 32 branch is >= 0
Int32NonNegative(data, offset) ==
  /\ \A i \in 0..31 : CharAt(data.bits, offset + i) \in BinDigits
  /\ CharAt(data.bits, offset + 31) = "0"

BitsValue(bits, offset, width) ==
  SumSeq([j \in 1..width |->
    IF CharAt(bits, offset + j - 1) = "1" THEN 2 ^ (j - 1) ELSE 0])

\* the characters of bits offset+width-1 down to offset
RECURSIVE BitsMSBFirst(_, _, _)
BitsMSBFirst(bits, offset, width) ==
  IF width = 0 THEN ""
  ELSE IF width = 1 THEN CharAt(bits, offset)
  ELSE BitsMSBFirst(bits, offset + width \div 2, width - width \div 2)
         \o BitsMSBFirst(bits, offset, width \div 2)

\* stringf("\\%03o", n) for n below 32
Octal3(n) == "\\0" \o ToString(n \div 8) \o ToString(n % 8)

EscapeChar(c) ==
  IF c = "\n" THEN "\\n"
  ELSE IF c = "\t" THEN "\\t"
  ELSE IF CharCode(c) < 32 THEN Octal3(CharCode(c))
  ELSE IF c = "\"" THEN "\\\""
  ELSE IF c = "\\" THEN "\\\\"
  ELSE c

RECURSIVE EscapeString(_)
EscapeString(t) ==
  IF t = "" THEN "" ELSE EscapeChar(CharAt(t, 0)) \o EscapeString(Substr1(t))

dump_const(data, width_arg, offset, autoint) ==
  LET width == IF width_arg < 0 THEN ConstSize(data) - offset ELSE width_arg IN
  IF ~data.string \/ width # ConstSize(data)
    THEN IF width = 32 /\ autoint /\ Int32NonNegative(data, offset)
      THEN ToString(BitsValue(data.bits, offset, 32))
      ELSE ToString(width) \o "'" \o
             (IF IsFullyUndef(data) THEN "x"
              ELSE BitsMSBFirst(data.bits, offset, width))
    ELSE "\"" \o EscapeString(data.str) \o "\""

(***************************************************************************)
(* MODULE_IP, OCLA_MODULE, OCLA_DEBUG_SUBSYSTEM_MODULE: the parameter      *)
(* schema (params) and set_param / check_all_params.  A slot's ptr is the  *)
(* field it stores into: <<field>>, or <<field, i>> for element i (from 1) *)
(* of an array field.                                                      *)
(***************************************************************************)
PARAM_INFO(ptr, type) == [type |-> type, is_assigned |-> FALSE, ptr |-> ptr]

BaseParams ==
  [k \in {"\\IP_TYPE", "\\IP_VERSION", "\\IP_ID"} |->
     IF k = "\\IP_TYPE" THEN PARAM_INFO(<<"type">>, "PARAM_IS_STR")
     ELSE IF k = "\\IP_VERSION" THEN PARAM_INFO(<<"version">>, "PARAM_IS_UINT32")
     ELSE PARAM_INFO(<<"id">>, "PARAM_IS_UINT32")]

OclaParams ==
  [k \in {"\\AXI_ADDR_WIDTH", "\\AXI_DATA_WIDTH", "\\MEM_DEPTH",
          "\\NO_OF_PROBES", "\\INDEX"} |->
     PARAM_INFO(<< CASE k = "\\AXI_ADDR_WIDTH" -> "axi_addr_width"
                     [] k = "\\AXI_DATA_WIDTH" -> "axi_data_width"
                     [] k = "\\MEM_DEPTH" -> "mem_depth"
                     [] k = "\\NO_OF_PROBES" -> "probes_count"
                     [] k = "\\INDEX" -> "index" >>, "PARAM_IS_UINT32")]

OCLA_MODULE(n) ==
  [name |-> n, params |-> BaseParams @@ OclaParams,
   type |-> "", version |-> 0, id |-> 0,
   is_axi |-> FALSE, axi_addr_width |-> 0, axi_data_width |-> 0,
   mem_depth |-> 0, probes_count |-> 0, index |-> 0, base_address |-> 0,
   probes |-> <<>>, probe_order |-> <<>>]

IFIndices == 1..MAXIMUM_SUPPORTED_PROBE_CORE

ProbeWidthKey(i) == "\\Probe" \o Dec2(i) \o "_Width"
IFBaseAddressKey(i) == "\\IF" \o Dec2(i) \o "_BaseAddress"
IFProbesKey(i) == "\\IF" \o Dec2(i) \o "_Probes"

SubsystemScalarParams ==
  [k \in {"\\Mode", "\\Axi_Type", "\\Sampling_Clk", "\\Cores", "\\No_Probes",
          "\\No_AXI_Bus", "\\Probes_Sum", "\\AXI_Core_BaseAddress"} |->
     CASE k = "\\Mode" -> PARAM_INFO(<<"mode">>, "PARAM_IS_STR")
       [] k = "\\Axi_Type" -> PARAM_INFO(<<"axi_type">>, "PARAM_IS_STR")
       [] k = "\\Sampling_Clk" -> PARAM_INFO(<<"sampling_clk">>, "PARAM_IS_STR")
       [] k = "\\Cores" -> PARAM_INFO(<<"cores">>, "PARAM_IS_UINT32")
       [] k = "\\No_Probes" -> PARAM_INFO(<<"no_probes">>, "PARAM_IS_UINT32")
       [] k = "\\No_AXI_Bus" -> PARAM_INFO(<<"no_axi_bus">>, "PARAM_IS_UINT32")
       [] k = "\\Probes_Sum" -> PARAM_INFO(<<"probes_sum">>, "PARAM_IS_UINT32")
       [] k = "\\AXI_Core_BaseAddress" ->
            PARAM_INFO(<<"axi_core_address">>, "PARAM_IS_UINT32")]

SubsystemArrayParams ==
  [k \in {ProbeWidthKey(i) : i \in IFIndices}
           \cup {IFBaseAddressKey(i) : i \in IFIndices}
           \cup {IFProbesKey(i) : i \in IFIndices} |->
     LET i == CHOOSE j \in IFIndices :
                k \in {ProbeWidthKey(j), IFBaseAddressKey(j), IFProbesKey(j)}
     IN IF k = ProbeWidthKey(i)
          THEN PARAM_INFO(<<"ip_probe_width", i>>, "PARAM_IS_UINT32")
        ELSE IF k = IFBaseAddressKey(i)
          THEN PARAM_INFO(<<"ip_address", i>>, "PARAM_IS_UINT32")
        ELSE PARAM_INFO(<<"ip_probe_info", i>>, "PARAM_IS_UINT64")]

OCLA_DEBUG_SUBSYSTEM_MODULE(n) ==
  [name |-> n,
   params |-> BaseParams @@ SubsystemScalarParams @@ SubsystemArrayParams,
   type |-> "", version |-> 0, id |-> 0,
   mode |-> "", axi_type |-> "", sampling_clk |-> "",
   cores |-> 0, no_probes |-> 0, no_axi_bus |-> 0, probes_sum |-> 0,
   ip_probe_width |-> Zero15, ip_address |-> Zero15, ip_probe_info |-> Zero15,
   axi_core_address |-> 0,
   probe_to_core_map |-> NoMap15, calculated_ip_core_width |-> Zero15]

\* *ptr = v
Store(ip, ptr, v) ==
  IF Len(ptr) = 1 THEN [ip EXCEPT ![ptr[1]] = v]
  ELSE [ip EXCEPT ![ptr[1]][ptr[2]] = v]

Load(ip, ptr) == IF Len(ptr) = 1 THEN ip[ptr[1]] ELSE ip[ptr[1]][ptr[2]]

SetResult(status, thrown, ip, m) ==
  [status |-> status, thrown |-> thrown, ip |-> ip, msgs |-> m]

\* the integer branch of set_param, before the store: the sized binary form
\* {bit size}'{binary string}, or the decimal form
ParseInteger(type, name, value) ==
  LET index == FindFrom(value, "'", 0) IN
  IF index # NPos
    THEN LET bit_size_str == SubSeq(value, 1, index)
             bin_value == SubSeq(value, index + 2, Len(value))
         IN
         IF HasOtherThan(bit_size_str, DecDigits) \/ HasOtherThan(bin_value, BinDigits)
           THEN [ok |-> FALSE, thrown |-> FALSE, val |-> ZeroLimbs,
                 msg |-> "Error: Param " \o name \o " value " \o value
                   \o " does not follow binary format ({bit size string}'{binary sring})"]
         ELSE IF StoLL(bit_size_str, 10).thrown
           THEN [ok |-> FALSE, thrown |-> TRUE, val |-> ZeroLimbs, msg |-> ""]
         ELSE LET bit_size == Cast32(StoLL(bit_size_str, 10).val) IN
           IF bit_size = ZeroLimbs \/ bit_size # LimbsOfNat(Len(bin_value))
             THEN [ok |-> FALSE, thrown |-> FALSE, val |-> ZeroLimbs,
                   msg |-> "Error: Param " \o name \o " value " \o value
                     \o " does not valid bit size and binary string size"]
           ELSE IF type = "PARAM_IS_UINT32" /\ LimbsGreater(bit_size, 32)
             THEN [ok |-> FALSE, thrown |-> FALSE, val |-> ZeroLimbs,
                   msg |-> "Error: Param uint32_t " \o name \o " value "
                     \o value \o " exceed 32 bits"]
           ELSE IF type # "PARAM_IS_UINT32" /\ LimbsGreater(bit_size, 64)
             THEN [ok |-> FALSE, thrown |-> FALSE, val |-> ZeroLimbs,
                   msg |-> "Error: Param uint64_t " \o name \o " value "
                     \o value \o " exceed 64 bits"]
           ELSE IF StoLL(bin_value, 2).thrown
             THEN [ok |-> FALSE, thrown |-> TRUE, val |-> ZeroLimbs, msg |-> ""]
           ELSE [ok |-> TRUE, thrown |-> FALSE,
                 val |-> StoLL(bin_value, 2).val, msg |-> ""]
    ELSE IF HasOtherThan(value, DecDigits)
      THEN [ok |-> FALSE, thrown |-> FALSE, val |-> ZeroLimbs,
            msg |-> "Error: Param " \o name \o " value " \o value
              \o " does not follow decimal format ({decimal sring})"]
    ELSE IF StoLL(value, 10).thrown
      THEN [ok |-> FALSE, thrown |-> TRUE, val |-> ZeroLimbs, msg |-> ""]
    ELSE [ok |-> TRUE, thrown |-> FALSE, val |-> StoLL(value, 10).val,
          msg |-> ""]

\* MODULE_IP::set_param: [status, thrown, ip, msgs]; thrown is an exception
\* of stol / stoll leaving the function
set_param(ip, name, value) ==
  IF name \notin DOMAIN ip.params
    THEN SetResult(TRUE, FALSE, ip, << Msg(1, "Ignore param " \o name) >>)
  ELSE IF ip.params[name].is_assigned
    THEN SetResult(FALSE, FALSE, ip,
           << Msg(1, "Error: Param " \o name \o " had been assigned") >>)
  ELSE IF ip.params[name].type = "PARAM_IS_STR"
    THEN IF Len(value) >= 2 /\ CharAt(value, 0) = "\""
              /\ CharAt(value, Len(value) - 1) = "\""
      THEN LET text == SubSeq(value, 2, Len(value) - 1) IN
           SetResult(TRUE, FALSE,
             [Store(ip, ip.params[name].ptr, text)
                EXCEPT !.params[name].is_assigned = TRUE],
             << Msg(1, "Param " \o name \o " - " \o text) >>)
      ELSE SetResult(FALSE, FALSE, ip,
             << Msg(1, "Error: Param " \o name \o " value " \o value
                       \o " does not follow string format") >>)
  ELSE LET Stored(u) ==
             SetResult(TRUE, FALSE,
               [Store(ip, ip.params[name].ptr, U64(u))
                  EXCEPT !.params[name].is_assigned = TRUE],
               << Msg(1, "Param " \o name \o " - " \o DecText(u) \o " (0x"
                    \o HexText(u, IF ip.params[name].type = "PARAM_IS_UINT32"
                                    THEN 8 ELSE 16) \o ")") >>)
           Parsed(r) ==
             IF r.thrown THEN SetResult(FALSE, TRUE, ip, <<>>)
             ELSE IF ~r.ok THEN SetResult(FALSE, FALSE, ip, << Msg(1, r.msg) >>)
             ELSE IF ip.params[name].type = "PARAM_IS_UINT32"
               THEN Stored(Cast32(r.val))
             ELSE Stored(r.val)
       IN Parsed(ParseInteger(ip.params[name].type, name, value))

(***************************************************************************)
(* check_unique_ocla_debug_subsystem.                                      *)
(***************************************************************************)
\* mutant: the scan of a module stops at its first matching cell
InstantiationsFirstPerModule(d, module_name) ==
  FlatCat([i \in 1..Len(d.modules) |->
    LET m == d.modules[i]
        hit == {j \in 1..Len(m.cells) : m.cells[j].type = module_name}
    IN IF hit = {} THEN <<>>
       ELSE LET j == CHOOSE x \in hit : \A y \in hit : x <= y
            IN << [module |-> m.name, cell |-> m.cells[j].name] >>])

\* the (module, cell) pairs of the two nested loops over design->modules()
\* and m->cells() whose cell type is module_name, in enumeration order
Instantiations(d, module_name) ==
  FlatCat([i \in 1..Len(d.modules) |->
    LET m == d.modules[i] IN
    FlatCat([j \in 1..Len(m.cells) |->
      IF m.cells[j].type = module_name
        THEN << [module |-> m.name, cell |-> m.cells[j].name] >>
        ELSE <<>>])])

\* mutant: the instance name is appended (nearest first) at every level
RECURSIVE ConnectionNameAppend(_, _, _)
ConnectionNameAppend(level, found, connection_name) ==
  IF found = <<>> THEN connection_name
  ELSE ConnectionNameAppend(level, Tail(found),
         IF Len(connection_name) > 0
           THEN connection_name \o "." \o Substr1(Head(found).cell)
           ELSE Head(found).cell)

RECURSIVE ConnectionName(_, _, _)
ConnectionName(level, found, connection_name) ==
  IF found = <<>> \/ level = 0 THEN connection_name
  ELSE ConnectionName(level, Tail(found),
         IF Len(connection_name) > 0
           THEN Head(found).cell \o "." \o Substr1(connection_name)
           ELSE Head(found).cell)

UniqueInit(module_name) ==
  [module_name |-> module_name, level |-> 0, instantiator |-> "",
   connection_name |-> "", status |-> TRUE, running |-> TRUE,
   msgs |-> << Msg(0, "Check uniqueness of OCLA Debug Subsystem") >>]

\* mutant: a module that is not instantiated exactly once leaves the loop
\* running on the same module
UniqueStepWithoutExit(d, s) ==
  LET found == Instantiations(d, s.module_name)
      module_names == [k \in 1..Len(found) |-> found[k].module]
      conn == ConnectionName(s.level, found, s.connection_name)
      level == s.level + 1
  IN
  IF Len(module_names) = 1
    THEN IF d.top = module_names[1]
      THEN [s EXCEPT !.module_name = module_names[1], !.level = level,
              !.connection_name = conn, !.running = FALSE,
              !.status = level >= 2]
      ELSE [s EXCEPT !.module_name = module_names[1], !.level = level,
              !.connection_name = conn,
              !.instantiator = IF level = 1 THEN module_names[1]
                               ELSE s.instantiator]
    ELSE s

\* one iteration of the while (status) loop
UniqueStep(d, s) ==
  LET found == Instantiations(d, s.module_name)
      module_names == [k \in 1..Len(found) |-> found[k].module]
      conn == ConnectionName(s.level, found, s.connection_name)
      level == s.level + 1
      m1 == << Msg(1, "Module: " \o s.module_name) >>
            \o [k \in 1..Len(found) |->
                 Msg(2, "Instantiated by " \o found[k].module \o " as "
                        \o found[k].cell)]
  IN
  IF Len(module_names) = 1
    THEN IF d.top = module_names[1]
      THEN IF level >= 2
        THEN [s EXCEPT !.module_name = module_names[1], !.level = level,
                !.connection_name = conn, !.running = FALSE,
                !.msgs = s.msgs \o m1 \o
                   << Msg(3, "This is top module"),
                      Msg(3, "Connection chain for OCLA Debug Subsystem: "
                             \o conn) >>]
        ELSE [s EXCEPT !.module_name = module_names[1], !.level = level,
                !.connection_name = conn, !.running = FALSE,
                !.status = FALSE,
                !.msgs = s.msgs \o m1 \o
                   << Msg(3, "This is top module"),
                      Msg(3, "Hierarchy level for OCLA Debug Subsystem is out of expectation") >>]
      ELSE [s EXCEPT !.module_name = module_names[1], !.level = level,
              !.connection_name = conn,
              !.instantiator = IF level = 1 THEN module_names[1]
                               ELSE s.instantiator,
              !.msgs = s.msgs \o m1]
    ELSE [s EXCEPT !.level = level, !.connection_name = conn,
            !.status = FALSE, !.running = FALSE, !.msgs = s.msgs \o m1]

\* after the loop
UniqueEnd(s) ==
  IF s.status /\ Len(s.instantiator) > 0
    THEN [s EXCEPT !.msgs = s.msgs \o
            << Msg(1, "OCLA Debug Subsystem Instantiator: " \o s.instantiator) >>]
    ELSE s

RECURSIVE UniqueLoop(_, _)
UniqueLoop(d, s) == IF s.running THEN UniqueLoop(d, UniqueStep(d, s)) ELSE s

\* mutant: the instantiator is the last module the walk arrived at
check_unique_ocla_debug_subsystemLastModule(d, module_name) ==
  LET Last(s) == [s EXCEPT !.instantiator = s.module_name]
  IN UniqueEnd(Last(UniqueLoop(d, UniqueInit(module_name))))

check_unique_ocla_debug_subsystem(d, module_name) ==
  UniqueEnd(UniqueLoop(d, UniqueInit(module_name)))

\* the keys of the params map in std::map (byte) order
OclaParamOrder ==
  << "\\AXI_ADDR_WIDTH", "\\AXI_DATA_WIDTH", "\\INDEX", "\\IP_ID", "\\IP_TYPE",
     "\\IP_VERSION", "\\MEM_DEPTH", "\\NO_OF_PROBES" >>

SubsystemParamOrder ==
  << "\\AXI_Core_BaseAddress", "\\Axi_Type", "\\Cores" >>
  \o FlatCat([i \in 1..MAXIMUM_SUPPORTED_PROBE_CORE |->
                << IFBaseAddressKey(i), IFProbesKey(i) >>])
  \o << "\\IP_ID", "\\IP_TYPE", "\\IP_VERSION", "\\Mode", "\\No_AXI_Bus",
        "\\No_Probes" >>
  \o [i \in 1..MAXIMUM_SUPPORTED_PROBE_CORE |-> ProbeWidthKey(i)]
  \o << "\\Probes_Sum", "\\Sampling_Clk" >>

ParamOrder(ip) ==
  IF "\\INDEX" \in DOMAIN ip.params THEN OclaParamOrder ELSE SubsystemParamOrder

\* MODULE_IP::check_all_params: [status, msgs]
check_all_params(ip) ==
  LET order == ParamOrder(ip)
      missing == FlatCat([k \in 1..Len(order) |->
                   IF ip.params[order[k]].is_assigned THEN <<>>
                   ELSE << Msg(1, "Error: missing parameter " \o order[k]) >>])
  IN [status |-> missing = <<>>, msgs |-> missing]

\* OCLA_MODULE::check_type: [status, msgs]
OclaCheckType(m) ==
  IF m.type = "OCLA" /\ Less(0, m.mem_depth) /\ Less(0, m.probes_count)
    THEN [status |-> TRUE, msgs |-> <<>>]
    ELSE [status |-> FALSE, msgs |->
           << Msg(1, "Error: Fail to validate parameters"),
              Msg(2, "IP_TYPE: " \o m.type),
              Msg(2, "MEM_DEPTH: " \o Int32Text(m.mem_depth)),
              Msg(2, "NO_OF_PROBES: " \o Int32Text(m.probes_count)) >>]

IsAxiType(t) == t = "AXI4" \/ t = "AXILite"

\* OCLA_DEBUG_SUBSYSTEM_MODULE::check_type: [status, msgs]
SubsystemCheckType(m) ==
  LET status ==
        /\ m.type = "OCLA"
        /\ \/ /\ m.mode = "NATIVE"
              /\ Less(0, m.no_probes) /\ Less(0, m.cores)
              /\ ~Less(m.no_probes, m.cores)
              /\ ~Less(MAXIMUM_SUPPORTED_PROBE_CORE, m.cores)
           \/ /\ m.mode = "AXI"
              /\ Equal(m.no_probes, 0) /\ Equal(m.cores, 1)
              /\ IsAxiType(m.axi_type)
              /\ Less(0, m.no_axi_bus) /\ ~Less(4, m.no_axi_bus)
           \/ /\ m.mode = "NATIVE_AXI"
              /\ Less(0, m.no_probes) /\ Less(1, m.cores)
              /\ ~Less(m.no_probes, Minus32(m.cores, 1))
              /\ ~Less(MAXIMUM_SUPPORTED_PROBE_CORE, m.cores)
              /\ IsAxiType(m.axi_type)
              /\ Less(0, m.no_axi_bus) /\ ~Less(4, m.no_axi_bus)
  IN IF status THEN [status |-> TRUE, msgs |-> <<>>]
     ELSE [status |-> FALSE, msgs |->
            << Msg(1, "Error: Fail to validate parameters"),
               Msg(2, "IP_TYPE: " \o m.type),
               Msg(2, "Mode: " \o m.mode) >>
            \o (IF m.mode = "AXI" \/ m.mode = "NATIVE_AXI"
                  THEN << Msg(2, "Axi_Type: " \o m.axi_type),
                          Msg(2, "No_AXI_Bus: " \o Int32Text(m.no_axi_bus)) >>
                  ELSE <<>>)
            \o << Msg(2, "Cores: " \o Int32Text(m.cores)),
                  Msg(2, "No_Probes: " \o Int32Text(m.no_probes)) >>]

(***************************************************************************)
(* get_module_params, match_module_name, get_modules.  A module of the     *)
(* design is [name, cells, avail_parameters, parameter_default_values].    *)
(***************************************************************************)
\* the body of the loop over module->avail_parameters for parameter k;
\* st = [ip, null, thrown, msgs], null once ip was deleted and set to nullptr
DecodeParam(module, st, k) ==
  LET p == module.avail_parameters[k] IN
  IF st.null \/ p \notin DOMAIN module.parameter_default_values THEN st
  ELSE LET Set(r) == [ip |-> r.ip, null |-> r.thrown \/ ~r.status,
                       thrown |-> r.thrown, msgs |-> st.msgs \o r.msgs]
       IN Set(set_param(st.ip, p,
                dump_const(module.parameter_default_values[p], -1, 0, TRUE)))

\* the loop over parameters lo..hi, in order
RECURSIVE DecodeParams(_, _, _, _)
DecodeParams(module, st, lo, hi) ==
  IF lo > hi THEN st
  ELSE IF lo = hi THEN DecodeParam(module, st, lo)
  ELSE LET mid == (lo + hi) \div 2
           Rest(s1) == IF s1.null THEN s1
                       ELSE DecodeParams(module, s1, mid + 1, hi)
       IN Rest(DecodeParams(module, st, lo, mid))

\* get_module_params: [ip, null, thrown, msgs]
get_module_params(module, ip) ==
  LET Checked(r, c) == [ip |-> r.ip, null |-> ~c.status, thrown |-> FALSE,
                        msgs |-> r.msgs \o c.msgs]
      Decoded(r) == IF r.null THEN r ELSE Checked(r, check_all_params(r.ip))
  IN Decoded(DecodeParams(module,
               [ip |-> ip, null |-> FALSE, thrown |-> FALSE, msgs |-> <<>>],
               1, Len(module.avail_parameters)))

match_module_name(name, module_name) ==
  LET fullname == "\\" \o module_name IN
  \/ name = fullname
  \/ /\ Len(name) > Len(fullname)
     /\ SubSeq(name, Len(name) - Len(fullname) + 1, Len(name)) = fullname

\* mutant: a new core goes in front of the cores of the same INDEX
InsertByIndexBeforeEqual(ocla_modules, m) ==
  LET before == {k \in 1..Len(ocla_modules) :
                   ~Less(ocla_modules[k].index, m.index)}
      pos == IF before = {} THEN Len(ocla_modules) + 1
             ELSE CHOOSE k \in before : \A j \in before : k <= j
  IN SubSeq(ocla_modules, 1, pos - 1) \o << m >>
       \o SubSeq(ocla_modules, pos, Len(ocla_modules))

\* mutant: a new core always goes to the back
InsertByIndexAtBack(ocla_modules, m) == Append(ocla_modules, m)

\* the insertion that keeps ocla_modules ordered by INDEX
InsertByIndex(ocla_modules, m) ==
  LET before == {k \in 1..Len(ocla_modules) :
                   Less(m.index, ocla_modules[k].index)}
      pos == IF before = {} THEN Len(ocla_modules) + 1
             ELSE CHOOSE k \in before : \A j \in before : k <= j
  IN SubSeq(ocla_modules, 1, pos - 1) \o << m >>
       \o SubSeq(ocla_modules, pos, Len(ocla_modules))

\* the body of the loop of get_modules for one module of the design;
\* st = [ocla_modules, ocla_debug_subsystem_modules, thrown, msgs]
ClassifyModule(st, module) ==
  IF match_module_name(module.name, "ocla")
    THEN LET m0 == << Msg(0, "Detected Potential OCLA: " \o module.name) >>
             Ocla(r) ==
               IF r.thrown
                 THEN [st EXCEPT !.thrown = TRUE, !.msgs = @ \o m0 \o r.msgs]
               ELSE IF ~r.null /\ OclaCheckType(r.ip).status
                 THEN [st EXCEPT
                         !.ocla_modules = InsertByIndex(@, r.ip),
                         !.msgs = @ \o m0 \o r.msgs
                                    \o << Msg(1, "Qualified as OCLA module") >>]
               ELSE [st EXCEPT !.msgs = @ \o m0 \o r.msgs
                       \o (IF ~r.null THEN OclaCheckType(r.ip).msgs ELSE <<>>)
                       \o << Msg(1, "Error: this is not qualified as OCLA module") >>]
         IN Ocla(get_module_params(module, OCLA_MODULE(module.name)))
  ELSE IF match_module_name(module.name, "ocla_debug_subsystem")
    THEN LET m0 == << Msg(0, "Detected Potential OCLA Debug Subsystem: "
                             \o module.name) >>
             Subsystem(r) ==
               IF r.thrown
                 THEN [st EXCEPT !.thrown = TRUE, !.msgs = @ \o m0 \o r.msgs]
               ELSE IF ~r.null /\ SubsystemCheckType(r.ip).status
                 THEN [st EXCEPT
                         !.ocla_debug_subsystem_modules = Append(@, r.ip),
                         !.msgs = @ \o m0 \o r.msgs
                           \o << Msg(1, "Qualified as OCLA Debug Subsystem module") >>]
               ELSE [st EXCEPT !.msgs = @ \o m0 \o r.msgs
                       \o (IF ~r.null THEN SubsystemCheckType(r.ip).msgs
                           ELSE <<>>)
                       \o << Msg(1, "Error: this is not qualified as OCLA Debug Subsystem module") >>]
         IN Subsystem(get_module_params(module,
                        OCLA_DEBUG_SUBSYSTEM_MODULE(module.name)))
  ELSE st

RECURSIVE ClassifyFrom(_, _, _)
ClassifyFrom(d, st, k) ==
  IF k > Len(d.modules) \/ st.thrown THEN st
  ELSE ClassifyFrom(d, ClassifyModule(st, d.modules[k]), k + 1)

\* get_modules: [ocla_modules, ocla_debug_subsystem_modules, thrown, msgs]
get_modules(d) ==
  ClassifyFrom(d, [ocla_modules |-> <<>>, ocla_debug_subsystem_modules |-> <<>>,
                   thrown |-> FALSE, msgs |-> <<>>], 1)

\* get_ocla_instantiator: [instantiators, msgs]
get_ocla_instantiator(d, module, instantiators) ==
  LET found == Instantiations(d, module.name) IN
  [instantiators |-> instantiators \o [k \in 1..Len(found) |-> found[k].module],
   msgs |-> << Msg(0, "Check instantiator for OCLA module " \o module.name) >>
            \o [k \in 1..Len(found) |->
                  Msg(1, "Instantiated by " \o found[k].module)]
            \o (IF found = <<>>
                  THEN << Msg(1, "Warning: Does not detect any instantiator") >>
                  ELSE <<>>)]

(***************************************************************************)
(* OCLA_DEBUG_SUBSYSTEM_MODULE::map_probe_core.  The subsystem record      *)
(* holds mode, cores, no_probes, ip_probe_width, ip_probe_info,            *)
(* probe_to_core_map and calculated_ip_core_width (arrays of 15, index     *)
(* from 0 in the code, from 1 here); an OCLA module record holds index,    *)
(* is_axi and probe_order.                                                 *)
(***************************************************************************)
IsNativeMode(mode) == mode = "NATIVE" \/ mode = "NATIVE_AXI"

\* mutant: the zero-knowledge loop reports nothing
MapPrecheckSkipped(st, mods, k) == st

\* the zero-knowledge loop at the head of map_probe_core
RECURSIVE MapPrecheck(_, _, _)
MapPrecheck(st, mods, k) ==
  IF k > Len(mods) THEN st
  ELSE LET m == mods[k] IN
    IF \/ Len(m.probe_order) > 0
       \/ Less(0, At(st.sub.calculated_ip_core_width, m.index))
      THEN MapPrecheck([st EXCEPT !.status = FALSE, !.msgs = @ \o
             << Msg(3, "Error: OCLA module at INDEX=" \o Int32Text(m.index)
                       \o " start with probe mapping") >>], mods, k + 1)
      ELSE MapPrecheck(st, mods, k + 1)

IFProbesText(st, i) ==
  "IF" \o Dec2(i + 1) \o "_Probes=0x" \o HexOf(At(st.sub.ip_probe_info, i), 16)

\* mutant: the offset is taken after the width was added
RecordProbeOffsetAfter(st, i, probe) ==
  [st EXCEPT
     !.mods[i + 1].probe_order = Append(@, probe),
     !.sub.probe_to_core_map[probe + 1] =
        [core |-> i, offset |-> Plus32(At(st.sub.calculated_ip_core_width, i),
                                       At(st.sub.ip_probe_width, probe))],
     !.sub.calculated_ip_core_width[i + 1] =
        Plus32(@, At(st.sub.ip_probe_width, probe)),
     !.mapping = @ \cup {probe},
     !.native_probe = @ + 1]

\* the statements that record probe (counted from 0) for interface i
RecordProbe(st, i, probe) ==
  [st EXCEPT
     !.mods[i + 1].probe_order = Append(@, probe),
     !.sub.probe_to_core_map[probe + 1] =
        [core |-> i, offset |-> At(st.sub.calculated_ip_core_width, i)],
     !.sub.calculated_ip_core_width[i + 1] =
        Plus32(@, At(st.sub.ip_probe_width, probe)),
     !.mapping = @ \cup {probe},
     !.native_probe = @ + 1]

\* mutant: a probe number above No_Probes is accepted
ValidProbeAnyNumber(probe, no_probes) ==
  probe > 0 /\ probe <= MAXIMUM_SUPPORTED_PROBE_CORE

\* the nibble names a probe of the subsystem
ValidProbe(probe, no_probes) ==
  /\ probe > 0 /\ probe <= MAXIMUM_SUPPORTED_PROBE_CORE
  /\ ~Less(no_probes, probe)

\* mutant: the mapping bit of a probe is never found set
AlreadyMappedNever(mapping, probe) == FALSE

\* mapping & (1 << probe)
AlreadyMapped(mapping, probe) == probe \in mapping

\* while (info): one nibble per iteration, least significant first
RECURSIVE DecodeInfo(_, _, _, _)
DecodeInfo(st, i, info, index) ==
  IF Equal(info, 0) THEN st
  ELSE LET probe == LowNibble(info) IN
    IF ValidProbe(probe, st.sub.no_probes)
      THEN IF AlreadyMapped(st.mapping, probe - 1)
        THEN [st EXCEPT !.status = FALSE, !.msgs = @ \o
               << Msg(3, "Error: Duplicated Probe detected at index "
                   \o ToString(index) \o " of " \o IFProbesText(st, i)
                   \o " {Probe=" \o ToString(probe) \o "}") >>]
        ELSE IF Equal(At(st.sub.ip_probe_width, probe - 1), 0)
        THEN [st EXCEPT !.status = FALSE, !.msgs = @ \o
               << Msg(3, "Error: Expect Probe" \o Dec2(probe)
                   \o "_Width to be none-zero because of index "
                   \o ToString(index) \o " of " \o IFProbesText(st, i)
                   \o " {Probe=" \o ToString(probe) \o "}, but it is not") >>]
        ELSE DecodeInfo(RecordProbe(st, i, probe - 1), i, ShiftRight4(info),
                        index + 1)
      ELSE [st EXCEPT !.status = FALSE, !.msgs = @ \o
             << Msg(3, "Error: Invalid Probe detected at index "
                 \o ToString(index) \o " of " \o IFProbesText(st, i)
                 \o " {" \o ToString(probe) \o "}") >>]

\* for (i = 0; i < MAXIMUM_SUPPORTED_PROBE_CORE && status; i++)
RECURSIVE SweepInterfaces(_, _, _)
SweepInterfaces(st, native_core, i) ==
  IF i >= MAXIMUM_SUPPORTED_PROBE_CORE \/ ~st.status THEN st
  ELSE IF Less(i, native_core)
    THEN IF Equal(At(st.sub.ip_probe_info, i), 0)
      THEN [st EXCEPT !.status = FALSE, !.msgs = @ \o
             << Msg(3, "Error: IF" \o Dec2(i + 1)
                 \o "_Probes should not be null, but found it is") >>]
      ELSE SweepInterfaces(DecodeInfo(st, i, At(st.sub.ip_probe_info, i), 0),
                           native_core, i + 1)
    ELSE IF ~Equal(At(st.sub.ip_probe_info, i), 0)
      THEN [st EXCEPT !.status = FALSE, !.msgs = @ \o
             << Msg(3, "Error: " \o "IF" \o Dec2(i + 1)
                 \o "_Probes should be null, but found 0x"
                 \o HexOf(At(st.sub.ip_probe_info, i), 16)) >>]
      ELSE SweepInterfaces(st, native_core, i + 1)

\* mutant: the number of probes consumed is not compared with No_Probes
CheckProbeCountUnchecked(st) == st

\* if (status) { native_probe != no_probes }
CheckProbeCount(st) ==
  IF ~st.status THEN st
  ELSE LET m == Msg(2, "Calculate number of probe (" \o ToString(st.native_probe)
                       \o ") must match paramter NO_PROBES="
                       \o Int32Text(st.sub.no_probes))
       IN IF ~Equal(st.native_probe, st.sub.no_probes)
            THEN [st EXCEPT !.status = FALSE,
                    !.msgs = @ \o << m, Msg(3, "Error: Comparison failed") >>]
            ELSE [st EXCEPT !.msgs = @ \o << m >>]

RECURSIVE CheckOwnership(_, _)
CheckOwnership(st, k) ==
  IF k > Len(st.mods) THEN st
  ELSE LET m == st.mods[k] IN
    IF ~m.is_axi /\ Len(m.probe_order) = 0
      THEN CheckOwnership([st EXCEPT !.status = FALSE, !.msgs = @ \o
             << Msg(3, "Error: NATIVE OCLA module at INDEX=" \o Int32Text(m.index)
                       \o " does not have any probe") >>], k + 1)
    ELSE IF m.is_axi /\ Len(m.probe_order) # 0
      THEN CheckOwnership([st EXCEPT !.status = FALSE, !.msgs = @ \o
             << Msg(3, "Error: Detect probe at AXI OCLA module at INDEX="
                       \o Int32Text(m.index)) >>], k + 1)
    ELSE CheckOwnership(st, k + 1)

\* if (status) { every native core owns a probe, the AXI core none }
CheckProbeOwners(st) ==
  IF ~st.status THEN st
  ELSE CheckOwnership([st EXCEPT !.msgs = @ \o
         << Msg(2, "OCLA Core Module must be associated with at least with one probe (except AXI probe)") >>], 1)

CoreWidthInfo(st, native_core) ==
  IF ~st.status THEN st
  ELSE [st EXCEPT !.msgs = @ \o << Msg(1, "Core{x}_Width information:") >>
         \o [k \in 1..native_core |->
              Msg(2, "Calculated Core" \o Dec2(k) \o "_Width="
                     \o Int32Text(st.sub.calculated_ip_core_width[k]))]]

\* the NATIVE / NATIVE_AXI branch
MapNative(st) ==
  LET native_core == IF st.sub.mode = "NATIVE" THEN st.sub.cores
                     ELSE Minus32(st.sub.cores, 1)
      s0 == [st EXCEPT !.msgs = @ \o << Msg(2, "IF{x}_Probes must be valid") >>]
  IN CoreWidthInfo(
       IF /\ Less(0, native_core)
          /\ ~Less(MAXIMUM_SUPPORTED_PROBE_CORE, native_core)
         THEN CheckProbeOwners(CheckProbeCount(SweepInterfaces(s0, native_core, 0)))
         ELSE [s0 EXCEPT !.status = FALSE, !.msgs = @ \o
                << Msg(3, "Error: Estimated Native Cores value "
                          \o Int32Text(native_core) \o " is invalid") >>],
       native_core)

\* the result: [status, sub, mods, msgs] (mapping and native_probe are locals)
map_probe_core(sub, ocla_modules) ==
  LET s0 == [status |-> TRUE, sub |-> sub, mods |-> ocla_modules,
             mapping |-> {}, native_probe |-> 0,
             msgs |-> << Msg(2, "OCLA module should start with zero-knowledge about probe mapping and width") >>]
      s1 == MapPrecheck(s0, ocla_modules, 1)
  IN IF s1.status /\ IsNativeMode(sub.mode) THEN MapNative(s1) ELSE s1


(***************************************************************************)
(* sanity_check.  st = [status, sub, mods, msgs]; every check runs only    *)
(* while status is still true.                                             *)
(***************************************************************************)
AXILite_SINGLE_BUS_SIGNALS == 152
AXI4_SINGLE_BUS_SIGNALS == 250

Fail(st, m) == [st EXCEPT !.status = FALSE, !.msgs = @ \o m]
Note(st, m) == [st EXCEPT !.msgs = @ \o m]

\* appends, for every k in 1..n with bad(k), the messages err(k); fails if any
ForEachCheck(st, n, bad(_), err(_)) ==
  LET errs == FlatCat([k \in 1..n |-> IF bad(k) THEN err(k) ELSE <<>>])
  IN IF errs = <<>> THEN st ELSE Fail(st, errs)

SanityInstantiatorCount(st, names) ==
  IF Len(st.mods) # Len(names)
    THEN Fail(st, << Msg(1, "Error: Not all the OCLA module (count="
                 \o ToString(Len(st.mods)) \o ") found the instantiator (count="
                 \o ToString(Len(names)) \o ")") >>)
    ELSE st

\* mutant: Cores is not compared with the number of cores found
SanityCoresUncompared(st) == st

SanityCores(st) ==
  IF ~st.status THEN st
  ELSE IF ~Equal(st.sub.cores, Len(st.mods))
    THEN Fail(st, << Msg(1, "Error: OCLA Debug Subsystem paramter CORES="
                 \o Int32Text(st.sub.cores)
                 \o " does not match with detected OCLA module count="
                 \o ToString(Len(st.mods))) >>)
    ELSE st

SanityIndexSequence(st) ==
  IF ~st.status THEN st
  ELSE ForEachCheck(
         Note(st, << Msg(1, "Check module parameter INDEX sequence, must be 0 .. "
                           \o Int32Text(Minus32(st.sub.cores, 1))) >>),
         Len(st.mods),
         LAMBDA k : ~Equal(st.mods[k].index, k - 1),
         LAMBDA k : << Msg(2, "Error: Module " \o st.mods[k].name
                       \o " has unexpected INDEX, expectation=" \o ToString(k - 1)
                       \o ", but found " \o Int32Text(st.mods[k].index)) >>)

SanityInstantiatorNames(st, names) ==
  IF ~st.status THEN st
  ELSE ForEachCheck(
         Note(st, << Msg(1, "All modules should be instantiated by "
                           \o st.sub.name) >>),
         Len(names),
         LAMBDA k : names[k] # st.sub.name,
         LAMBDA k : << Msg(2, "Found unexpected instantiator: " \o names[k]) >>)

SanityIdentity(st) ==
  IF ~st.status THEN st
  ELSE ForEachCheck(
         Note(st, << Msg(1, "Parameter IP_TYPE=" \o st.sub.type
                    \o ", IP_VERSION=0x" \o HexOf(st.sub.version, 8)
                    \o ", IP_ID=0x" \o HexOf(st.sub.id, 8) \o " must match") >>),
         Len(st.mods),
         LAMBDA k : \/ st.sub.type # st.mods[k].type
                    \/ ~Equal(st.sub.version, st.mods[k].version)
                    \/ ~Equal(st.sub.id, st.mods[k].id),
         LAMBDA k : << Msg(2, "Error: Module " \o st.mods[k].name
                    \o " has mismatch paramerer IP_TYPE=" \o st.mods[k].type
                    \o ", IP_VERSION=0x" \o HexOf(st.mods[k].version, 8)
                    \o ", IP_ID=0x" \o HexOf(st.mods[k].id, 8)) >>)

SanityAxiWidths(st) ==
  IF ~st.status THEN st
  ELSE LET axi_addr_width == st.mods[1].axi_addr_width
           axi_data_width == st.mods[1].axi_data_width
       IN ForEachCheck(
         Note(st, << Msg(1, "Parameter AXI_ADDR_WIDTH=" \o Int32Text(axi_addr_width)
                    \o ", AXI_DATA_WIDTH=" \o Int32Text(axi_data_width)
                    \o " must match") >>),
         Len(st.mods),
         LAMBDA k : \/ ~Equal(axi_addr_width, st.mods[k].axi_addr_width)
                    \/ ~Equal(axi_data_width, st.mods[k].axi_data_width),
         LAMBDA k : << Msg(2, "Error: Module " \o st.mods[k].name
                    \o " has mismatch paramerer AXI_ADDR_WIDTH="
                    \o Int32Text(st.mods[k].axi_addr_width) \o ", AXI_DATA_WIDTH="
                    \o Int32Text(st.mods[k].axi_data_width)) >>)

SanityMapping(st) ==
  IF ~st.status THEN st
  ELSE LET Mapped(r) ==
             [status |-> r.status, sub |-> r.sub, mods |-> r.mods,
              msgs |-> st.msgs
                \o << Msg(1, "Probe <-> Core information mapping must be valid") >>
                \o r.msgs]
       IN Mapped(map_probe_core(st.sub, st.mods))

\* the messages of one module in the NO_OF_PROBES check; the first is not an
\* error when the module is the AXI one
AxiProtocolSize(sub) ==
  IF sub.axi_type = "AXILite" THEN AXILite_SINGLE_BUS_SIGNALS
  ELSE AXI4_SINGLE_BUS_SIGNALS

ProbeCountErrors(sub, m) ==
  LET calc == At(sub.calculated_ip_core_width, m.index)
      axi_expected_probes_count == Times32(sub.no_axi_bus, AxiProtocolSize(sub))
  IN
  IF m.is_axi
    THEN (IF ~Equal(calc, 0)
            THEN << Msg(2, "Error: Instantiator calculated Core"
                      \o Dec2(m.index + 1) \o "_Width=" \o Int32Text(calc)
                      \o ", but expect it is 0 (last OCLA is connected to AXI)") >>
            ELSE <<>>)
         \o (IF ~Equal(m.probes_count, axi_expected_probes_count)
               THEN << Msg(2, "Error: Module " \o m.name
                      \o " has mismatch paramerer NO_OF_PROBES="
                      \o Int32Text(m.probes_count) \o ", but expected it is "
                      \o Int32Text(axi_expected_probes_count)
                      \o " (count=" \o Int32Text(sub.no_axi_bus)
                      \o " x protocol_size=" \o ToString(AxiProtocolSize(sub))
                      \o ")") >>
               ELSE <<>>)
    ELSE IF ~Equal(m.probes_count, calc)
      THEN << Msg(2, "Error: Module " \o m.name
                \o " has mismatch paramerer NO_OF_PROBES="
                \o Int32Text(m.probes_count) \o ", instantiator calculated Core"
                \o Dec2(m.index + 1) \o "_Width=" \o Int32Text(calc)) >>
      ELSE <<>>

SanityProbeCounts(st) ==
  IF ~st.status THEN st
  ELSE LET per == [k \in 1..Len(st.mods) |->
                     (IF st.mods[k].is_axi
                        THEN << Msg(1, "Last OCLA INDEX="
                                  \o Int32Text(st.mods[k].index)
                                  \o " must match AXI Protocol Bus Size") >>
                        ELSE <<>>)
                     \o ProbeCountErrors(st.sub, st.mods[k])]
           bad == \E k \in 1..Len(st.mods) :
                    ProbeCountErrors(st.sub, st.mods[k]) # <<>>
       IN [st EXCEPT !.status = ~bad,
             !.msgs = @ \o << Msg(1, "Parameter NO_OF_PROBES and Param{x}_Width must match") >>
                        \o FlatCat(per)]

SanityUnusedWidths(st) ==
  IF ~(st.status /\ Len(st.mods) < MAXIMUM_SUPPORTED_PROBE_CORE) THEN st
  ELSE LET unused == IF Less(st.sub.cores, MAXIMUM_SUPPORTED_PROBE_CORE)
                       THEN MAXIMUM_SUPPORTED_PROBE_CORE - st.sub.cores ELSE 0
           idx == [k \in 1..unused |-> st.sub.cores + k - 1]
       IN ForEachCheck(
         Note(st, << Msg(1, "Unused Probe[" \o Dec2(Len(st.mods) + 1)
                           \o "..15]_Width must be null") >>),
         Len(idx),
         LAMBDA k : ~Equal(At(st.sub.calculated_ip_core_width, idx[k]), 0),
         LAMBDA k : << Msg(2, "Error: Probe" \o ToString(idx[k])
                              \o " is not null") >>)

\* mutant: the sum is announced but not compared with PROBES_SUM
SanitySumUncompared(st, title, values) ==
  IF ~st.status THEN st ELSE Note(st, << Msg(1, title) >>)

SanitySum(st, title, values) ==
  IF ~st.status THEN st
  ELSE LET probes_sum ==
             IF st.sub.mode # "NATIVE"
               THEN Plus32(Sum32(values), st.mods[Len(st.mods)].probes_count)
               ELSE Sum32(values)
           s1 == Note(st, << Msg(1, title) >>)
       IN IF ~Equal(probes_sum, st.sub.probes_sum)
            THEN Fail(s1, << Msg(2, "Error: PROBES_SUM by calculation ("
                      \o Int32Text(probes_sum) \o ") does not match with definition ("
                      \o Int32Text(st.sub.probes_sum) \o ")") >>)
            ELSE s1

\* the loop of the base address check over modules k..; seen = the
\* addresses pushed so far, each on its limbs
\* mutant: every module takes its address, none is compared with the others
AssignAddressesAny(st, k, seen) ==
  [st EXCEPT !.mods = [j \in 1..Len(st.mods) |->
     [st.mods[j] EXCEPT !.base_address =
        At(st.sub.ip_address, st.mods[j].index)]]]

RECURSIVE AssignAddresses(_, _, _)
AssignAddresses(st, k, seen) ==
  IF k > Len(st.mods) THEN st
  ELSE LET m == st.mods[k]
           a == At(st.sub.ip_address, m.index)
           s1 == [st EXCEPT !.mods[k].base_address = a]
       IN IF Limbs(a) \notin seen
            THEN AssignAddresses(
                   Note(s1, << Msg(2, "Module " \o m.name \o " has base address 0x"
                                      \o HexOf(a, 8)) >>),
                   k + 1, seen \cup {Limbs(a)})
            ELSE AssignAddresses(
                   Fail(s1, << Msg(2, "Error: Module " \o m.name
                      \o " has conflict base address 0x" \o HexOf(a, 8)) >>),
                   k + 1, seen)

\* mutant: the base addresses are assigned whatever the earlier checks said
SanityAddressesRegardless(st) ==
  AssignAddresses(
    Note(st, << Msg(1, "Parameter IF[01.." \o Dec2(Len(st.mods))
                      \o "]_BaseAddress must not conflict") >>), 1, {})

SanityAddresses(st) ==
  IF ~st.status THEN st
  ELSE AssignAddresses(
         Note(st, << Msg(1, "Parameter IF[01.." \o Dec2(Len(st.mods))
                           \o "]_BaseAddress must not conflict") >>), 1, {})

\* sanity_check: [status, sub, mods, msgs]
sanity_check(sub, ocla_modules, ocla_instantiator_names) ==
  LET s0 == [status |-> TRUE, sub |-> sub, mods |-> ocla_modules,
             msgs |-> << Msg(0, "Sanity Check") >>]
      s1 == SanityInstantiatorCount(s0, ocla_instantiator_names)
      s2 == SanityCores(s1)
      s3 == SanityIndexSequence(s2)
      s4 == SanityInstantiatorNames(s3, ocla_instantiator_names)
      s5 == SanityIdentity(s4)
      s6 == SanityAxiWidths(s5)
      s7 == SanityMapping(s6)
      s8 == SanityProbeCounts(s7)
      WidthSum(s9) ==
        SanitySum(s9, "Parameter PROBES_SUM versus Probe{x}_Width",
                  s9.sub.ip_probe_width)
      CoreSum(s10) ==
        SanitySum(s10, "Parameter PROBES_SUM versus calculated Core{x}_Width",
                  s10.sub.calculated_ip_core_width)
  IN SanityAddresses(CoreSum(WidthSum(SanityUnusedWidths(s8))))

(***************************************************************************)
(* OCLA_SIGNAL, dump_sigchunk, dump_sigspec, get_ocla_signals.  A chunk is *)
(* [wire, wire_width, width, offset, data]; wire = "" stands for the NULL  *)
(* wire of a constant chunk.  A SigSpec is the sequence of its chunks,     *)
(* least significant first.  A cell is [type, name, connections], its      *)
(* connections a sequence of [port, sig].                                  *)
(***************************************************************************)
RECURSIVE RFindFrom(_, _, _)
RFindFrom(s, c, i) ==
  IF i < 0 THEN NPos
  ELSE IF CharAt(s, i) = c THEN i ELSE RFindFrom(s, c, i - 1)

\* OCLA_SIGNAL(f, n, w, o, s)
OCLA_SIGNAL(f, n, w, o, s) ==
  LET index == RFindFrom(n, ".", Len(n) - 1)
      n1 == IF index # NPos THEN SubSeq(n, index + 2, Len(n)) ELSE n
      n2 == IF Len(n1) > 0 /\ CharAt(n1, 0) = "\\" THEN Substr1(n1) ELSE n1
  IN [fullname |-> f, name |-> n2, width |-> w, offset |-> o, show_index |-> s]

\* OCLA_SIGNAL(signal, w, i, no_extra_index)
\* mutant: the bus number is appended whatever the number of buses
AXI_SIGNALNumbered(signal, w, i, no_extra_index) ==
  [fullname |-> signal \o "_" \o ToString(i + 1),
   name |-> signal \o "_" \o ToString(i + 1), width |-> w, offset |-> 0,
   show_index |-> w > 1]

AXI_SIGNAL(signal, w, i, no_extra_index) ==
  LET fullname == signal \o (IF no_extra_index THEN "" ELSE "_" \o ToString(i + 1))
  IN [fullname |-> fullname, name |-> fullname, width |-> w, offset |-> 0,
      show_index |-> w > 1]

\* dump_sigchunk: [text, signal]
dump_sigchunk(chunk, autoint) ==
  IF chunk.wire = ""
    THEN LET Constant(t) ==
               [text |-> t,
                signal |-> OCLA_SIGNAL(t, t, chunk.width, chunk.offset, FALSE)]
         IN Constant(dump_const(chunk.data, chunk.width, chunk.offset, autoint))
    ELSE LET t == IF chunk.width = chunk.wire_width /\ chunk.offset = 0
                    THEN chunk.wire
                  ELSE IF chunk.width = 1
                    THEN chunk.wire \o " [" \o ToString(chunk.offset) \o "]"
                  ELSE chunk.wire \o " ["
                         \o ToString(chunk.offset + chunk.width - 1) \o ":"
                         \o ToString(chunk.offset) \o "]"
         IN [text |-> t,
             signal |-> OCLA_SIGNAL(t, chunk.wire, chunk.width, chunk.offset,
                          ~(chunk.width = chunk.wire_width /\ chunk.width = 1
                            /\ chunk.offset = 0))]

\* mutant: every fragment is appended behind the ones already collected
RECURSIVE InsertChunksAtBack(_, _, _)
InsertChunksAtBack(ss, chunks, k) ==
  IF k = 0 THEN [text |-> "", ss |-> ss]
  ELSE LET Joined(c, r) == [text |-> c.text \o " " \o r.text, ss |-> r.ss]
           Insert(c) ==
             Joined(c, InsertChunksAtBack(Append(ss, c.signal), chunks, k - 1))
       IN Insert(dump_sigchunk(chunks[k], FALSE))

\* the loop of dump_sigspec from chunk k down to chunk 1, every fragment
\* inserted at ss.begin()
RECURSIVE InsertChunks(_, _, _)
InsertChunks(ss, chunks, k) ==
  IF k = 0 THEN [text |-> "", ss |-> ss]
  ELSE LET Joined(c, r) == [text |-> c.text \o " " \o r.text, ss |-> r.ss]
           Insert(c) ==
             Joined(c, InsertChunks(<< c.signal >> \o ss, chunks, k - 1))
       IN Insert(dump_sigchunk(chunks[k], FALSE))

\* dump_sigspec (autoint = true): [text, ss]
dump_sigspec(ss, sig) ==
  IF Len(sig) = 1
    THEN LET Single(c) == [text |-> c.text, ss |-> << c.signal >> \o ss]
         IN Single(dump_sigchunk(sig[1], TRUE))
    ELSE LET Braced(r) == [text |-> "{ " \o r.text \o "}", ss |-> r.ss]
         IN Braced(InsertChunks(ss, sig, Len(sig)))

\* the loop over cell->connections() for one probe; st = [m, status, found, msgs]
RECURSIVE ScanConnections(_, _, _, _)
ScanConnections(st, connections, module_probe_name, k) ==
  IF k > Len(connections) THEN st
  ELSE IF connections[k].port # module_probe_name
    THEN ScanConnections(st, connections, module_probe_name, k + 1)
  ELSE LET starting_count == Len(st.m.probes)
           Dumped(r) ==
             [m |-> [st.m EXCEPT !.probes = r.ss],
              status |-> st.status /\ ~(Len(r.ss) <= starting_count),
              found |-> TRUE,
              msgs |-> st.msgs
                \o << Msg(3, "Found potential Probe Connection: "
                             \o connections[k].port),
                      Msg(4, "Connected to " \o r.text) >>
                \o (IF Len(r.ss) <= starting_count
                      THEN << Msg(4, "Fail to parse connection "
                                     \o module_probe_name) >>
                      ELSE <<>>)]
       IN ScanConnections(Dumped(dump_sigspec(st.m.probes, connections[k].sig)),
                          connections, module_probe_name, k + 1)

\* mutant: a probe without a connection does not clear the status
RECURSIVE ScanProbesFoundOrNot(_, _, _)
ScanProbesFoundOrNot(st, cell, i) ==
  IF i = 0 THEN st
  ELSE LET module_probe_name == "\\probe_" \o ToString(st.m.probe_order[i] + 1)
           Scanned(r) ==
             [m |-> r.m, status |-> r.status,
              msgs |-> r.msgs \o (IF r.found THEN <<>>
                                  ELSE << Msg(3, "Fail to find the connection") >>)]
       IN ScanProbesFoundOrNot(
            Scanned(ScanConnections(
              [m |-> st.m, status |-> st.status, found |-> FALSE,
               msgs |-> st.msgs \o
                 << Msg(2, "OCLA Module at INDEX=" \o Int32Text(st.m.index)
                           \o " looking for connection "
                           \o module_probe_name) >>],
              cell.connections, module_probe_name, 1)),
            cell, i - 1)

\* the loop over m->probe_order from position i (from 1) down to 1;
\* st = [m, status, msgs]
RECURSIVE ScanProbes(_, _, _)
ScanProbes(st, cell, i) ==
  IF i = 0 THEN st
  ELSE LET module_probe_name == "\\probe_" \o ToString(st.m.probe_order[i] + 1)
           Scanned(r) ==
             [m |-> r.m, status |-> r.status /\ r.found,
              msgs |-> r.msgs \o (IF r.found THEN <<>>
                                  ELSE << Msg(3, "Fail to find the connection") >>)]
       IN ScanProbes(
            Scanned(ScanConnections(
              [m |-> st.m, status |-> st.status, found |-> FALSE,
               msgs |-> st.msgs \o
                 << Msg(2, "OCLA Module at INDEX=" \o Int32Text(st.m.index)
                           \o " looking for connection "
                           \o module_probe_name) >>],
              cell.connections, module_probe_name, 1)),
            cell, i - 1)

\* the loop over the modules for one cell; st = [mods, status, msgs]
RECURSIVE ScanModules(_, _, _)
ScanModules(st, cell, k) ==
  IF k > Len(st.mods) THEN st
  ELSE IF st.mods[k].is_axi THEN ScanModules(st, cell, k + 1)
  ELSE LET Probed(r) == [mods |-> [st.mods EXCEPT ![k] = r.m],
                          status |-> r.status, msgs |-> r.msgs]
       IN ScanModules(
            Probed(ScanProbes([m |-> st.mods[k], status |-> st.status,
                               msgs |-> st.msgs],
                              cell, Len(st.mods[k].probe_order))),
            cell, k + 1)

\* the loop over top_module->cells()
RECURSIVE ScanCells(_, _, _, _)
ScanCells(st, cells, instantiator_module, k) ==
  IF k > Len(cells) THEN st
  ELSE IF cells[k].type # instantiator_module
    THEN ScanCells(st, cells, instantiator_module, k + 1)
  ELSE ScanCells(
         ScanModules(Note(st, << Msg(1, "Instantiated as " \o cells[k].name) >>),
                     cells[k], 1),
         cells, instantiator_module, k + 1)

\* mutant: the AXI4 table without its last signal
AXI4SignalsWithoutLast ==
  << <<"AWADDR", 32>>, <<"AWPROT", 3>>, <<"AWVALID", 1>>, <<"AWREADY", 1>>,
     <<"AWBURST", 2>>, <<"AWSIZE", 3>>, <<"AWLEN", 8>>, <<"AWID", 8>>,
     <<"AWCACHE", 4>>, <<"AWREGION", 4>>, <<"AWUSER", 1>>, <<"AWQOS", 4>>,
     <<"AWLOCK", 1>>,
     <<"WDATA", 32>>, <<"WSTRB", 4>>, <<"WVALID", 1>>, <<"WREADY", 1>>,
     <<"WID", 8>>, <<"WLAST", 1>>,
     <<"BRESP", 2>>, <<"BVALID", 1>>, <<"BREADY", 1>>, <<"BID", 8>>,
     <<"BUSER", 1>>,
     <<"ARADDR", 32>>, <<"ARPROT", 3>>, <<"ARVALID", 1>>, <<"ARREADY", 1>>,
     <<"ARBUSRT", 2>>, <<"ARSIZE", 3>>, <<"ARLEN", 8>>, <<"ARID", 8>>,
     <<"ARCACHE", 4>>, <<"ARREGION", 4>>, <<"ARUSER", 1>>, <<"ARQOS", 4>>,
     <<"ARLOCK", 1>>,
     <<"RDATA", 32>>, <<"RRESP", 2>>, <<"RREADY", 1>>, <<"RVALID", 1>>,
     <<"RID", 8>>, <<"RUSER", 1>> >>

AXILiteSignals ==
  << <<"AWADDR", 32>>, <<"AWPROT", 3>>, <<"AWVALID", 1>>, <<"AWREADY", 1>>,
     <<"WDATA", 32>>, <<"WSTRB", 4>>, <<"WVALID", 1>>, <<"WREADY", 1>>,
     <<"BRESP", 2>>, <<"BVALID", 1>>, <<"BREADY", 1>>,
     <<"ARADDR", 32>>, <<"ARPROT", 3>>, <<"ARVALID", 1>>, <<"ARREADY", 1>>,
     <<"RDATA", 32>>, <<"RRESP", 2>>, <<"RVALID", 1>>, <<"RREADY", 1>> >>

AXI4Signals ==
  << <<"AWADDR", 32>>, <<"AWPROT", 3>>, <<"AWVALID", 1>>, <<"AWREADY", 1>>,
     <<"AWBURST", 2>>, <<"AWSIZE", 3>>, <<"AWLEN", 8>>, <<"AWID", 8>>,
     <<"AWCACHE", 4>>, <<"AWREGION", 4>>, <<"AWUSER", 1>>, <<"AWQOS", 4>>,
     <<"AWLOCK", 1>>,
     <<"WDATA", 32>>, <<"WSTRB", 4>>, <<"WVALID", 1>>, <<"WREADY", 1>>,
     <<"WID", 8>>, <<"WLAST", 1>>,
     <<"BRESP", 2>>, <<"BVALID", 1>>, <<"BREADY", 1>>, <<"BID", 8>>,
     <<"BUSER", 1>>,
     <<"ARADDR", 32>>, <<"ARPROT", 3>>, <<"ARVALID", 1>>, <<"ARREADY", 1>>,
     <<"ARBUSRT", 2>>, <<"ARSIZE", 3>>, <<"ARLEN", 8>>, <<"ARID", 8>>,
     <<"ARCACHE", 4>>, <<"ARREGION", 4>>, <<"ARUSER", 1>>, <<"ARQOS", 4>>,
     <<"ARLOCK", 1>>,
     <<"RDATA", 32>>, <<"RRESP", 2>>, <<"RREADY", 1>>, <<"RVALID", 1>>,
     <<"RID", 8>>, <<"RUSER", 1>>, <<"RLAST", 1>> >>

\* the signals pushed for the AXI module
AxiProbes(axi_type, no_axi_bus) ==
  LET table == IF axi_type = "AXILite" THEN AXILiteSignals ELSE AXI4Signals IN
  FlatCat([b \in 1..no_axi_bus |->
    [k \in 1..Len(table) |->
       AXI_SIGNAL(table[k][1], table[k][2], b - 1, no_axi_bus = 1)]])

\* the second loop of get_ocla_signals, entered with status = true
RECURSIVE CompleteSignals(_, _, _, _)
CompleteSignals(st, axi_type, no_axi_bus, k) ==
  IF k > Len(st.mods) THEN st
  ELSE LET m == st.mods[k] IN
    IF m.is_axi
      THEN LET Push(s1) ==
                 IF s1.status
                   THEN [s1 EXCEPT !.mods[k].probes =
                           @ \o AxiProbes(axi_type, no_axi_bus)]
                   ELSE s1
           IN CompleteSignals(
                Push(IF Len(m.probes) # 0
                       THEN Fail(st, << Msg(2, "Module " \o m.name \o " (INDEX="
                              \o Int32Text(m.index)
                              \o ") is AXI protocol, there shouldn't be any probe signal, but found there is") >>)
                       ELSE st),
                axi_type, no_axi_bus, k + 1)
      ELSE CompleteSignals(
             IF Len(m.probes) = 0
               THEN Fail(st, << Msg(2, "Module " \o m.name \o " (INDEX="
                      \o Int32Text(m.index) \o ") failed to get probe signals") >>)
               ELSE st,
             axi_type, no_axi_bus, k + 1)

\* get_ocla_signals: [status, mods, msgs]
get_ocla_signals(top_cells, axi_type, no_axi_bus, modules, instantiator_module) ==
  LET s0 == [status |-> TRUE, mods |-> modules,
             msgs |-> << Msg(0, "Retrieve OCLA signals (type=" \o axi_type
                              \o ") from instantiator: " \o instantiator_module) >>]
      Complete(s1) ==
        IF s1.status THEN CompleteSignals(s1, axi_type, no_axi_bus, 1) ELSE s1
  IN Complete(ScanCells(s0, top_cells, instantiator_module, 1))

(***************************************************************************)
(* OCLA_MODULE::finalize.                                                  *)
(***************************************************************************)
\* mutant: a signal as wide as what is left of the probe is refused
ExceedsBoundaryOrFills(width, probe_width) == ~Less(width, probe_width)

\* probes[probe_index].width > probe_width
ExceedsBoundary(width, probe_width) == Less(probe_width, width)

\* the while (probe_width) loop: [ok, probe_index, msgs]
RECURSIVE AlignProbe(_, _, _, _)
AlignProbe(m, probe_width, probe_index, space) ==
  IF Equal(probe_width, 0)
    THEN [ok |-> TRUE, probe_index |-> probe_index, msgs |-> <<>>]
  ELSE IF probe_index >= Len(m.probes)
    THEN [ok |-> FALSE, probe_index |-> probe_index,
          msgs |-> << Msg(space + 2, "Does not have enough signal for the checking") >>]
  ELSE IF ExceedsBoundary(At(m.probes, probe_index).width, probe_width)
    THEN [ok |-> FALSE, probe_index |-> probe_index,
          msgs |-> << Msg(space + 2, "Signal "
                      \o At(m.probes, probe_index).fullname
                      \o " exceed boundary") >>]
  ELSE AlignProbe(m, Minus32(probe_width, At(m.probes, probe_index).width),
                  probe_index + 1, space)

\* the loop over probe_order from position k: [ok, probe_index, msgs]
RECURSIVE AlignFrom(_, _, _, _, _)
AlignFrom(m, probe_widths, k, probe_index, space) ==
  IF k > Len(m.probe_order)
    THEN [ok |-> TRUE, probe_index |-> probe_index, msgs |-> <<>>]
  ELSE LET probe_width == At(probe_widths, m.probe_order[k])
           note == << Msg(space + 1, "OCLA Module at INDEX=" \o Int32Text(m.index)
                       \o " should have signals that aligned with number "
                       \o Int32Text(probe_width) \o ", starting at signal #"
                       \o ToString(probe_index)) >>
           Later(t) == [ok |-> t.ok, probe_index |-> t.probe_index,
                        msgs |-> note \o t.msgs]
           Aligned(r) ==
             IF ~r.ok
               THEN [ok |-> FALSE, probe_index |-> r.probe_index,
                     msgs |-> note \o r.msgs]
               ELSE Later(AlignFrom(m, probe_widths, k + 1, r.probe_index, space))
       IN Aligned(AlignProbe(m, probe_width, probe_index, space))

\* mutant: fragments left over after the last probe are not looked at
finalizeLeftOver(m, probe_widths, space) ==
  IF ~Equal(Sum32([k \in 1..Len(m.probes) |-> m.probes[k].width]),
            m.probes_count)
    THEN [status |-> FALSE, msgs |-> <<>>]
  ELSE IF m.is_axi THEN [status |-> TRUE, msgs |-> <<>>]
  ELSE LET Covered(r) == [status |-> r.ok, msgs |-> r.msgs]
       IN Covered(AlignFrom(m, probe_widths, 1, 0, space))

\* finalize: [status, msgs]
finalize(m, probe_widths, space) ==
  LET total_s == Sum32([k \in 1..Len(m.probes) |-> m.probes[k].width]) IN
  IF ~Equal(total_s, m.probes_count)
    THEN [status |-> FALSE,
          msgs |-> << Msg(space, "Error: OCLA module at INDEX="
                     \o Int32Text(m.index)
                     \o " has invalid total probe signal(s) bus size "
                     \o Int32Text(total_s) \o " (NO_OF_PROBES "
                     \o Int32Text(m.probes_count) \o ")") >>]
  ELSE IF m.is_axi THEN [status |-> TRUE, msgs |-> <<>>]
  ELSE LET head == << Msg(space, "Checking signal alignment") >>
           Covered(r) ==
             IF ~r.ok THEN [status |-> FALSE, msgs |-> head \o r.msgs]
             ELSE IF r.probe_index # Len(m.probes)
               THEN [status |-> FALSE,
                     msgs |-> head \o r.msgs \o
                       << Msg(space + 1, "The checking not able to cover all signal. Total signal count="
                            \o ToString(Len(m.probes)) \o ", but only cover "
                            \o ToString(r.probe_index)) >>]
             ELSE [status |-> TRUE, msgs |-> head \o r.msgs]
       IN Covered(AlignFrom(m, probe_widths, 1, 0, space))

(***************************************************************************)
(* OCLA_AnalyzerPass::execute and OCLA_Analyzer::analyze, one action per   *)
(* step.  an holds the locals of analyze and the trace of the calls made;  *)
(* json holds the file and what was written to the stream besides the      *)
(* messages.                                                               *)
(***************************************************************************)
TopCells(d) ==
  LET hit == {k \in 1..Len(d.modules) : d.modules[k].name = d.top}
  IN IF hit = {} THEN <<>> ELSE d.modules[CHOOSE k \in hit : TRUE].cells

\* run_pass("blackbox <name>"): the module keeps its name and loses its body
Blackboxed(d, name) ==
  [d EXCEPT !.modules = [k \in 1..Len(d.modules) |->
     IF d.modules[k].name = name THEN [d.modules[k] EXCEPT !.cells = <<>>]
     ELSE d.modules[k]]]

\* run_pass("flatten"): the cells of the top module become the leaf cells the
\* netlist flattens to, which the design record carries in flat
Flattened(d) ==
  [d EXCEPT !.modules = [k \in 1..Len(d.modules) |->
     IF d.modules[k].name = d.top THEN [d.modules[k] EXCEPT !.cells = d.flat]
     ELSE d.modules[k]]]

\* json_write_param: the members written for ip, keys without backslashes
RECURSIVE DropBackslashes(_)
DropBackslashes(t) ==
  IF t = "" THEN ""
  ELSE (IF CharAt(t, 0) = "\\" THEN "" ELSE CharAt(t, 0))
         \o DropBackslashes(Substr1(t))

json_write_param(ip) ==
  LET order == ParamOrder(ip) IN
  [k \in 1..Len(order) |->
     LET p == ip.params[order[k]] IN
     IF p.type = "PARAM_IS_STR"
       THEN DropBackslashes("\"" \o order[k] \o "\" : \"" \o Load(ip, p.ptr) \o "\"")
       ELSE DropBackslashes("\"" \o order[k] \o "\" : " \o UIntText(Load(ip, p.ptr)))]

\* json_write_signals: the array elements written for the signals
json_write_signals(signals) ==
  [k \in 1..Len(signals) |->
     LET sg == signals[k] IN
     IF ~sg.show_index THEN sg.name
     ELSE IF sg.width = 1 THEN sg.name \o "[" \o ToString(sg.offset) \o "]"
     ELSE sg.name \o "[" \o ToString(sg.offset + sg.width - 1) \o ":"
            \o ToString(sg.offset) \o "]"]

\* the object written for one core in the "ocla" array
CoreSection(o, sub) ==
  [params |-> json_write_param(o),
   addr |-> Int32Text(o.base_address),
   probe_info |-> [k \in 1..Len(o.probe_order) |->
                     [index |-> Int32Text(o.probe_order[k]),
                      offset |-> Int32Text(
                        At(sub.probe_to_core_map, o.probe_order[k]).offset),
                      width |-> Int32Text(
                        At(sub.ip_probe_width, o.probe_order[k]))]],
   probes |-> json_write_signals(o.probes)]

EmptyAnalysis ==
  [ocla_count |-> 0, ocla_debug_subsystem_instantiator |-> "",
   ocla_debug_subsystem_connection_name |-> "",
   ocla_modules |-> <<>>, ocla_debug_subsystem_modules |-> <<>>,
   ocla_instantiator_names |-> <<>>, next_core |-> 1,
   finalized |-> <<>>, calls |-> <<>>, log_error |-> "", given |-> <<>>,
   deleted |-> [ocla_modules |-> <<>>, ocla_debug_subsystem_modules |-> <<>>]]

\* no file yet: file is the name of the file execute created, open tells
\* whether its stream is open
EmptyJson ==
  [file |-> "", open |-> FALSE,
   closed |-> FALSE, ended |-> FALSE, ocla |-> <<>>, has_ocla |-> FALSE,
   ocla_debug_subsystem |-> <<>>, has_ocla_debug_subsystem |-> FALSE]

Post(m) == msgs' = msgs \o m
\* the trace entry of a call and of what it returned (TRUE for void)
Called(name, ok) == [an EXCEPT !.calls = Append(@, [call |-> name, ok |-> ok])]

\* the words of the command: args[1] is the name of the pass
ArgLists ==
  { << "ocla_analyze" >>,
    << "ocla_analyze", "-top", "top" >>,
    << "ocla_analyze", "-auto-top" >>,
    << "ocla_analyze", "-file", "o.json" >>,
    << "ocla_analyze", "-bogus" >>,
    << "ocla_analyze", "-top" >>,
    << "ocla_analyze", "-auto-top", "-file" >> }

\* execute, lines 1624-1642: the loop over the words from argidx on; unknown
\* is the word log_error names
RECURSIVE ParseArgs(_, _, _)
ParseArgs(args, argidx, o) ==
  IF argidx > Len(args) THEN o
  ELSE IF args[argidx] = "-top" /\ argidx < Len(args)
    THEN ParseArgs(args, argidx + 2, [o EXCEPT !.top_name = args[argidx + 1]])
  ELSE IF args[argidx] = "-auto-top"
    THEN ParseArgs(args, argidx + 1, [o EXCEPT !.is_auto = TRUE])
  ELSE IF args[argidx] = "-file" /\ argidx < Len(args)
    THEN ParseArgs(args, argidx + 2, [o EXCEPT !.json_name = args[argidx + 1]])
  ELSE [o EXCEPT !.error = TRUE, !.unknown = args[argidx]]

\* lines 1624-1626
DefaultOptions ==
  [top_name |-> "", json_name |-> "ocla.json", is_auto |-> FALSE,
   error |-> FALSE, unknown |-> ""]

\* lines 1644-1649: the command handed to run_pass, "" for none
HierarchyCommand(o) ==
  IF Len(o.top_name) > 0 THEN "hierarchy -top " \o o.top_name
  ELSE IF o.is_auto THEN "hierarchy -auto-top"
  ELSE ""

\* the modules no cell of the design instantiates
Uninstantiated(d) ==
  {d.modules[k].name : k \in 1..Len(d.modules)}
    \ UNION {{d.modules[k].cells[c].type : c \in 1..Len(d.modules[k].cells)} :
               k \in 1..Len(d.modules)}

\* run_pass of a hierarchy command: the pass is not part of this file.  Of
\* the design record it can change which module is the top: it names the
\* module asked for (with -auto-top: a module of a design without top that
\* nothing instantiates), or it leaves the design as it found it.
HierarchyOutcomes(d, o) ==
  LET named ==
        IF Len(o.top_name) > 0
          THEN {"\\" \o o.top_name}
                 \cap {d.modules[k].name : k \in 1..Len(d.modules)}
        ELSE IF d.top = "" THEN Uninstantiated(d)
        ELSE {}
  IN {d} \cup {[d EXCEPT !.top = n] : n \in named}

\* OCLA_AnalyzerPass::execute up to the call of analyze
Execute ==
  /\ pc = "execute"
  /\ \E args \in ArgLists :
       LET o == ParseArgs(args, 2, DefaultOptions)
           cmd == HierarchyCommand(o)
       IN IF o.error
            THEN /\ an' = [an EXCEPT !.log_error =
                            "Analyze Unknown Option : \"" \o o.unknown \o "\""]
                 /\ pc' = "option_error"
                 /\ UNCHANGED <<design, json>>
          ELSE /\ IF cmd = ""
                    THEN UNCHANGED <<design, an>>
                    ELSE /\ design' \in HierarchyOutcomes(design, o)
                         /\ an' = Called(cmd, TRUE)
               /\ json' = [json EXCEPT !.file = o.json_name, !.open = TRUE]
               /\ pc' = "start"
  /\ UNCHANGED <<msgs, hw, mp, sp, fin>>

\* lines 610-618
AnalyzeStart ==
  /\ pc = "start"
  /\ IF design.top = ""
       THEN /\ Post(<< Msg(0, "Start of OCLA Analysis"),
                       Msg(0, "Cannot find top module"),
                       Msg(0, "End of OCLA Analysis") >>)
            /\ json' = [json EXCEPT !.ended = TRUE, !.closed = TRUE,
                                    !.open = FALSE]
            /\ an' = [an EXCEPT !.log_error = "Cannot find top module",
                                !.given = design]
            /\ pc' = "fatal"
       ELSE /\ Post(<< Msg(0, "Start of OCLA Analysis") >>)
            /\ json' = json
            /\ an' = [an EXCEPT !.given = design]
            /\ pc' = "get_modules"
  /\ UNCHANGED <<design, hw, mp, sp, fin>>

\* step 1; an exception of set_param leaves analyze
Step1GetModules ==
  /\ pc = "get_modules"
  /\ LET Returned(r) ==
           /\ Post(r.msgs)
           /\ an' = [Called("get_modules", ~r.thrown) EXCEPT
                       !.ocla_modules = r.ocla_modules,
                       !.ocla_debug_subsystem_modules =
                          r.ocla_debug_subsystem_modules]
           /\ pc' = IF r.thrown THEN "aborted" ELSE "check_counts"
     IN Returned(get_modules(design))
  /\ UNCHANGED <<design, json, hw, mp, sp, fin>>

\* step 2
Step2CheckCounts ==
  /\ pc = "check_counts"
  /\ IF Len(an.ocla_modules) = 0 \/ Len(an.ocla_debug_subsystem_modules) # 1
       THEN /\ Post(<< Msg(0, "Warning/Error: OCLA module count="
                      \o ToString(Len(an.ocla_modules))
                      \o ", OCLA Debug Subsystem module count="
                      \o ToString(Len(an.ocla_debug_subsystem_modules))) >>)
            /\ pc' = "msg_end"
       ELSE /\ Post(<<>>)
            /\ pc' = "check_unique"
  /\ UNCHANGED <<design, an, json, hw, mp, sp, fin>>

\* step 3
Step3CheckUnique ==
  /\ pc = "check_unique"
  /\ LET Returned(r) ==
           /\ an' = [Called("check_unique_ocla_debug_subsystem", r.status) EXCEPT
                       !.ocla_debug_subsystem_instantiator = r.instantiator,
                       !.ocla_debug_subsystem_connection_name = r.connection_name]
           /\ IF r.status
                THEN Post(r.msgs) /\ pc' = "get_instantiators"
                ELSE /\ Post(r.msgs \o << Msg(1, "Error: Currently only support one OCLA Debug Subsystem instance in a design") >>)
                     /\ pc' = "msg_end"
     IN Returned(check_unique_ocla_debug_subsystem(
                   design, an.ocla_debug_subsystem_modules[1].name))
  /\ UNCHANGED <<design, json, hw, mp, sp, fin>>

\* the loop of step 4 from module k: [instantiators, msgs]
RECURSIVE InstantiatorsFrom(_, _, _, _)
InstantiatorsFrom(d, mods, acc, k) ==
  IF k > Len(mods) THEN acc
  ELSE LET Added(r) == [instantiators |-> r.instantiators,
                         msgs |-> acc.msgs \o r.msgs]
       IN InstantiatorsFrom(d, mods,
            Added(get_ocla_instantiator(d, mods[k], acc.instantiators)), k + 1)

\* step 4
Step4GetInstantiators ==
  /\ pc = "get_instantiators"
  /\ LET Returned(r) ==
           /\ Post(r.msgs)
           /\ an' = [Called("get_ocla_instantiator", TRUE) EXCEPT
                       !.ocla_instantiator_names = r.instantiators]
     IN Returned(InstantiatorsFrom(design, an.ocla_modules,
                   [instantiators |-> <<>>, msgs |-> <<>>], 1))
  /\ pc' = "check_instantiators"
  /\ UNCHANGED <<design, json, hw, mp, sp, fin>>

\* step 5
Step5CheckInstantiators ==
  /\ pc = "check_instantiators"
  /\ IF Len(an.ocla_instantiator_names) = 0
       THEN /\ Post(<< Msg(0, "Error: Does not find any OCLA instantiator") >>)
            /\ pc' = "msg_end"
       ELSE Post(<<>>) /\ pc' = "set_axi"
  /\ UNCHANGED <<design, an, json, hw, mp, sp, fin>>

\* step 6
Step6SetAxi ==
  /\ pc = "set_axi"
  /\ an' = IF an.ocla_debug_subsystem_modules[1].mode \in {"AXI", "NATIVE_AXI"}
             THEN [an EXCEPT !.ocla_modules[Len(an.ocla_modules)].is_axi = TRUE]
             ELSE an
  /\ pc' = "sanity_check"
  /\ UNCHANGED <<design, msgs, json, hw, mp, sp, fin>>

\* mutant: step 8 is entered whatever sanity_check returned
AfterSanityCheckUnchecked(status) == "blackbox"

\* where analyze continues after step 7
AfterSanityCheck(status) == IF status THEN "blackbox" ELSE "msg_end"

\* step 7
Step7SanityCheck ==
  /\ pc = "sanity_check"
  /\ LET Returned(r) ==
           /\ an' = [Called("sanity_check", r.status) EXCEPT
                       !.ocla_modules = r.mods,
                       !.ocla_debug_subsystem_modules = << r.sub >>]
           /\ Post(r.msgs \o (IF r.status THEN <<>>
                              ELSE << Msg(0, "Error: Sanity check fail") >>))
           /\ pc' = AfterSanityCheck(r.status)
     IN Returned(sanity_check(an.ocla_debug_subsystem_modules[1],
                              an.ocla_modules, an.ocla_instantiator_names))
  /\ UNCHANGED <<design, json, hw, mp, sp, fin>>

\* step 8, first pass
Step8Blackbox ==
  /\ pc = "blackbox"
  /\ LET cmd == "blackbox " \o an.ocla_debug_subsystem_instantiator IN
     /\ Post(<< Msg(0, "Run command: " \o cmd) >>)
     /\ an' = Called(cmd, TRUE)
  /\ design' = Blackboxed(design, an.ocla_debug_subsystem_instantiator)
  /\ pc' = "flatten"
  /\ UNCHANGED <<json, hw, mp, sp, fin>>

\* step 8, second pass
Step8Flatten ==
  /\ pc = "flatten"
  /\ Post(<< Msg(0, "Run command: flatten") >>)
  /\ an' = Called("flatten", TRUE)
  /\ design' = Flattened(design)
  /\ pc' = "get_ocla_signals"
  /\ UNCHANGED <<json, hw, mp, sp, fin>>

\* step 9
Step9GetSignals ==
  /\ pc = "get_ocla_signals"
  /\ LET sub == an.ocla_debug_subsystem_modules[1]
         Returned(r) ==
           /\ an' = [Called("get_ocla_signals", r.status) EXCEPT
                       !.ocla_modules = r.mods]
           /\ IF r.status
                THEN Post(r.msgs) /\ pc' = "finalize"
                ELSE /\ Post(r.msgs
                          \o << Msg(0, "Error: Fail to get probe signals") >>)
                     /\ pc' = "msg_end"
     IN Returned(get_ocla_signals(TopCells(design),
                   IF sub.mode = "NATIVE" THEN "NATIVE" ELSE sub.axi_type,
                   sub.no_axi_bus, an.ocla_modules,
                   an.ocla_debug_subsystem_instantiator))
  /\ UNCHANGED <<design, json, hw, mp, sp, fin>>

\* mutant: a disqualified core leaves the count as it was
DisqualifiedCountKept(ocla_count) == ocla_count

\* ocla_count after a core failed finalize
DisqualifiedCount(ocla_count) == 0

\* step 10, one iteration of the loop over ocla_modules
Step10Finalize ==
  /\ pc = "finalize"
  /\ an.next_core <= Len(an.ocla_modules)
  /\ LET o == an.ocla_modules[an.next_core]
         head == << Msg(1, "Module: " \o o.name), Msg(2, "Final checking ...") >>
         Returned(r) ==
        IF r.status
          THEN /\ Post(head \o r.msgs \o << Msg(3, "Probes:") >>
                    \o FlatCat([k \in 1..Len(o.probes) |->
                         << Msg(4, "--> " \o o.probes[k].fullname),
                            Msg(5, ": " \o o.probes[k].name \o " (width="
                               \o ToString(o.probes[k].width) \o ", offset="
                               \o ToString(o.probes[k].offset) \o ")") >>]))
               /\ an' = [Called("finalize", TRUE) EXCEPT
                           !.ocla_count = @ + 1, !.next_core = @ + 1,
                           !.finalized = Append(@, TRUE)]
               /\ pc' = IF an.next_core = Len(an.ocla_modules)
                          THEN "msg_end" ELSE "finalize"
          ELSE /\ Post(head \o r.msgs
                    \o << Msg(3, "Error: Disqualify this module") >>)
               /\ an' = [Called("finalize", FALSE) EXCEPT
                           !.ocla_count = DisqualifiedCount(@), !.next_core = @ + 1,
                           !.finalized = Append(@, FALSE)]
               /\ pc' = "msg_end"
     IN Returned(finalize(o, an.ocla_debug_subsystem_modules[1].ip_probe_width, 3))
  /\ UNCHANGED <<design, json, hw, mp, sp, fin>>

\* mutant: the sections are written once any core has finalized
EmitWhenAnyFinalized(a) == \E k \in 1..Len(a.finalized) : a.finalized[k]

\* the condition of step 11
EmitSections(a) == a.ocla_count # 0

\* ANALYZE_MSG_END and steps 11, 12 (step 12 deletes the objects of both
\* lists and leaves the lists empty); analyze returns to execute, which
\* closes the file (line 1652)
AnalyzeEnd ==
  /\ pc = "msg_end"
  /\ Post(<< Msg(0, "End of OCLA Analysis") >>)
  /\ json' = IF EmitSections(an)
      THEN [file |-> json.file, open |-> FALSE,
            closed |-> TRUE, ended |-> TRUE, has_ocla |-> TRUE,
            ocla |-> [k \in 1..Len(an.ocla_modules) |->
                        CoreSection(an.ocla_modules[k],
                                    an.ocla_debug_subsystem_modules[1])],
            has_ocla_debug_subsystem |-> TRUE,
            ocla_debug_subsystem |->
              json_write_param(an.ocla_debug_subsystem_modules[1])]
      ELSE [json EXCEPT !.closed = TRUE, !.ended = TRUE, !.open = FALSE]
  /\ an' = [an EXCEPT !.ocla_modules = <<>>,
                      !.ocla_debug_subsystem_modules = <<>>,
                      !.deleted = [ocla_modules |-> an.ocla_modules,
                                   ocla_debug_subsystem_modules |->
                                     an.ocla_debug_subsystem_modules]]
  /\ pc' = "done"
  /\ UNCHANGED <<design, hw, mp, sp, fin>>

(***************************************************************************)
(* Designs of the hierarchy specification: module 0 is the debug           *)
(* subsystem, module NumMods-1 the top; a module instantiates only modules *)
(* of a lower rank, so the instantiation graph is acyclic.                 *)
(***************************************************************************)
SubName == "\\ocla_debug_subsystem"
TopName == "\\top"

HModName(i) == IF i = 0 THEN SubName
               ELSE IF i = NumMods - 1 THEN TopName
               ELSE "\\m" \o ToString(i)

HPairs == {p \in (0..NumMods-1) \X (0..NumMods-1) : p[1] > p[2]}

HCellName(child, k) == "\\u" \o ToString(child) \o "_" \o ToString(k)

\* the cells of module j: for each lower module, mult[<<j, i>>] instances
HCells(mult, j) ==
  FlatCat([i1 \in 1..j |->
    [k \in 1..mult[<<j, i1 - 1>>] |->
       [type |-> HModName(i1 - 1), name |-> HCellName(i1 - 1, k)]]])

HDesign(mult) ==
  [top |-> TopName,
   modules |-> [j1 \in 1..NumMods |->
      [name |-> HModName(NumMods - j1), cells |-> HCells(mult, NumMods - j1)]]]

RECURSIVE SumOver(_, _)
SumOver(f, S) == IF S = {} THEN 0
                 ELSE LET x == CHOOSE y \in S : TRUE
                      IN f[x] + SumOver(f, S \ {x})

HInit ==
  /\ \E mult \in [HPairs -> 0..MaxInst] :
       /\ SumOver(mult, HPairs) <= MaxCells
       /\ design = HDesign(mult)
  /\ pc = "h_start"
  /\ msgs = <<>>
  /\ hw = UniqueInit(SubName)
  /\ mp = <<>>
  /\ an = <<>>
  /\ json = <<>>
  /\ sp = <<>>
  /\ fin = <<>>

HStep ==
  /\ pc \in {"h_start", "h_loop"}
  /\ hw.running
  /\ hw' = UniqueStep(design, hw)
  /\ pc' = "h_loop"
  /\ UNCHANGED <<design, msgs, mp, an, json, sp, fin>>

HEnd ==
  /\ pc = "h_loop"
  /\ ~hw.running
  /\ hw' = UniqueEnd(hw)
  /\ msgs' = hw'.msgs
  /\ pc' = "h_done"
  /\ UNCHANGED <<design, mp, an, json, sp, fin>>

HNext == HStep \/ HEnd

SpecHier == HInit /\ [][HNext]_vars

\* the function runs to its end without being suspended: an iteration or
\* the return that can be taken is taken
SpecHierFair == SpecHier /\ WF_vars(HNext)

(***************************************************************************)
(* The mapping specification: map_probe_core applied to the states         *)
(* sanity_check can call it in (check_type passed, Cores equals the number *)
(* of OCLA modules, the k-th module has INDEX k, the last one is the AXI   *)
(* core unless the mode is NATIVE, nothing mapped yet).                    *)
(***************************************************************************)
\* the widths the declared probes are drawn from
ProbeWidthChoice == <<4, 8, 2>>
MapNativeCores == {1, 2}

\* packed fields as nibble lists, least significant first, top nibble not 0
NibbleLists(maxval) ==
  {n \in UNION {[1..l -> 0..maxval] : l \in 0..MaxNibbles} :
     Len(n) > 0 => n[Len(n)] # 0}

RECURSIVE PackNibbles(_)
PackNibbles(n) == IF n = <<>> THEN 0 ELSE Head(n) + 16 * PackNibbles(Tail(n))

FreshModules(cores, mode) ==
  [k \in 1..cores |->
     [index |-> k - 1, is_axi |-> (mode # "NATIVE" /\ k = cores),
      probe_order |-> <<>>]]

MapSubsystem(mode, cores, no_probes, widths, infos) ==
  [mode |-> mode, cores |-> cores, no_probes |-> no_probes,
   ip_probe_width |-> [k \in 1..MAXIMUM_SUPPORTED_PROBE_CORE |->
                         IF k <= Len(widths) THEN widths[k] ELSE 0],
   ip_probe_info |-> [k \in 1..MAXIMUM_SUPPORTED_PROBE_CORE |->
                         IF k <= Len(infos) THEN infos[k] ELSE 0],
   probe_to_core_map |-> NoMap15,
   calculated_ip_core_width |-> Zero15]

MInit ==
  /\ \E mode \in {"NATIVE", "NATIVE_AXI", "AXI"}, native \in MapNativeCores,
        no_probes \in 0..Len(ProbeWidthChoice),
        zero \in 0..Len(ProbeWidthChoice) :
       LET cores == IF mode = "NATIVE" THEN native
                    ELSE IF mode = "NATIVE_AXI" THEN native + 1 ELSE 1
           widths == [k \in 1..Len(ProbeWidthChoice) |->
                        IF k = zero THEN 0 ELSE ProbeWidthChoice[k]]
       IN
       \* check_type
       /\ mode = "AXI" => (no_probes = 0 /\ native = 1 /\ zero = 0)
       /\ mode # "AXI" => (no_probes > 0 /\ no_probes >= native)
       /\ \E f \in [1..native -> NibbleLists(no_probes + 1)], beyond \in {0, 1} :
            /\ SumSeq([k \in 1..native |-> Len(f[k])]) <= MaxNibbles
            /\ mp = [sub |-> MapSubsystem(mode, cores, no_probes, widths,
                               [k \in 1..native |-> PackNibbles(f[k])]
                                 \o << beyond >>),
                     mods |-> FreshModules(cores, mode),
                     out |-> <<>>, again |-> <<>>]
  /\ pc = "m_start"
  /\ msgs = <<>>
  /\ design = <<>>
  /\ hw = <<>>
  /\ an = <<>>
  /\ json = <<>>
  /\ sp = <<>>
  /\ fin = <<>>

MApply ==
  /\ pc = "m_start"
  /\ mp' = [mp EXCEPT !.out = map_probe_core(mp.sub, mp.mods)]
  /\ msgs' = mp'.out.msgs
  /\ pc' = "m_done"
  /\ UNCHANGED <<design, hw, an, json, sp, fin>>

\* map_probe_core invoked once more, on what the first invocation left
MApplyAgain ==
  /\ pc = "m_done"
  /\ mp' = [mp EXCEPT !.again = map_probe_core(mp.out.sub, mp.out.mods)]
  /\ msgs' = msgs \o mp'.again.msgs
  /\ pc' = "m_again"
  /\ UNCHANGED <<design, hw, an, json, sp, fin>>

MNext == MApply \/ MApplyAgain

SpecMap == MInit /\ [][MNext]_vars

(***************************************************************************)
(* Designs handed to analyze.  A scenario describes a netlist: the chain   *)
(* of instantiations from the top module down to the subsystem, the        *)
(* parameters of the subsystem and of every core, and the probe            *)
(* connections of the wrapper instance once the design is flattened.       *)
(* A run starts from one of the base scenarios, unchanged or changed in    *)
(* one place.                                                              *)
(***************************************************************************)
WrapName == "\\ocla_wrapper"
SocName == "\\soc"
StrayName == "\\stray"
CoreModName(k) == "$paramod$c" \o ToString(k) \o "\\ocla"
SecondSubName == "$paramod$s2\\ocla_debug_subsystem"

Pad15(q) == [k \in 1..MAXIMUM_SUPPORTED_PROBE_CORE |->
               IF k <= Len(q) THEN q[k] ELSE 0]
Kinds15 == [k \in 1..MAXIMUM_SUPPORTED_PROBE_CORE |-> "exact"]

CoreDesc(index, probes_count) ==
  [index |-> index, probes_count |-> probes_count, mem_depth |-> 1024,
   type |-> "OCLA", version |-> 1, id |-> 3,
   axi_addr_width |-> 32, axi_data_width |-> 32, parent |-> "sub", omit |-> ""]

BaseScenario(mode, axi_type, no_axi_bus, no_probes, probes_sum, widths, infos,
             cores) ==
  [has_top |-> TRUE, levels |-> 2, sub_cells |-> 1, path_cells |-> 1,
   stray_parent |-> FALSE, n_sub |-> 1, reverse |-> FALSE,
   sub |-> [type |-> "OCLA", version |-> 1, id |-> 3, mode |-> mode,
            axi_type |-> axi_type, sampling_clk |-> "clk",
            cores |-> Len(cores), no_probes |-> no_probes,
            no_axi_bus |-> no_axi_bus, probes_sum |-> probes_sum,
            axi_core_address |-> 0,
            widths |-> Pad15(widths), infos |-> Pad15(infos),
            addrs |-> [k \in 1..MAXIMUM_SUPPORTED_PROBE_CORE |-> 16 * k],
            top_bit |-> FALSE, omit |-> "", extra |-> FALSE,
            mode_as_int |-> FALSE],
   cores |-> cores,
   flat |-> [cells |-> 1, kinds |-> Kinds15]]

\* two native cores taking three and two one-bit probes
ScenarioNative5 ==
  BaseScenario("NATIVE", "", 0, 5, 5, <<1, 1, 1, 1, 1>>, <<801, 84>>,
               << CoreDesc(0, 3), CoreDesc(1, 2) >>)

\* probe widths 4, 8, 2 with IF01_Probes = 0x21, IF02_Probes = 0x3
ScenarioNative3 ==
  BaseScenario("NATIVE", "", 0, 3, 14, <<4, 8, 2>>, <<33, 3>>,
               << CoreDesc(0, 12), CoreDesc(1, 2) >>)

\* a single core on one AXILite bus
ScenarioAxi ==
  BaseScenario("AXI", "AXILite", 1, 0, 152, <<>>, <<>>, << CoreDesc(0, 152) >>)

\* one native core and the AXI4 core behind it
ScenarioNativeAxi ==
  BaseScenario("NATIVE_AXI", "AXI4", 1, 2, 255, <<3, 2>>, <<33>>,
               << CoreDesc(0, 5), CoreDesc(1, 250) >>)

Scenarios ==
  << ScenarioNative5, ScenarioNative3, ScenarioAxi, ScenarioNativeAxi >>

\* a change of one field of a scenario: the path of the field, its new value
Faults ==
  << << <<"has_top">>, FALSE >>,
     << <<"levels">>, 1 >>, << <<"levels">>, 3 >>,
     << <<"sub_cells">>, 0 >>, << <<"sub_cells">>, 2 >>,
     << <<"path_cells">>, 0 >>, << <<"path_cells">>, 2 >>,
     << <<"stray_parent">>, TRUE >>,
     << <<"n_sub">>, 0 >>, << <<"n_sub">>, 2 >>,
     << <<"reverse">>, TRUE >>,
     << <<"sub", "type">>, "PLL" >>,
     << <<"sub", "version">>, 2 >>,
     << <<"sub", "id">>, 4 >>,
     << <<"sub", "mode">>, "NATIVE" >>, << <<"sub", "mode">>, "AXI" >>,
     << <<"sub", "mode">>, "NATIVE_AXI" >>, << <<"sub", "mode">>, "JTAG" >>,
     << <<"sub", "axi_type">>, "AXI4" >>, << <<"sub", "axi_type">>, "AXILite" >>,
     << <<"sub", "axi_type">>, "AXI3" >>,
     << <<"sub", "cores">>, 1 >>, << <<"sub", "cores">>, 3 >>,
     << <<"sub", "no_probes">>, 0 >>, << <<"sub", "no_probes">>, 2 >>,
     << <<"sub", "no_probes">>, 4 >>,
     << <<"sub", "no_axi_bus">>, 0 >>, << <<"sub", "no_axi_bus">>, 2 >>,
     << <<"sub", "no_axi_bus">>, 5 >>,
     << <<"sub", "probes_sum">>, 6 >>,
     << <<"sub", "widths", 1>>, 0 >>, << <<"sub", "widths", 1>>, 2 >>,
     << <<"sub", "widths", 6>>, 1 >>,
     << <<"sub", "infos", 1>>, 0 >>, << <<"sub", "infos", 1>>, 17 >>,
     << <<"sub", "infos", 1>>, 257 >>, << <<"sub", "infos", 1>>, 289 >>,
     << <<"sub", "infos", 1>>, 833 >>, << <<"sub", "infos", 1>>, 15 >>,
     << <<"sub", "infos", 1>>, 321 >>,
     << <<"sub", "infos", 2>>, 1 >>, << <<"sub", "infos", 2>>, 3 >>,
     << <<"sub", "infos", 3>>, 1 >>,
     << <<"sub", "addrs", 2>>, 16 >>,
     << <<"sub", "top_bit">>, TRUE >>,
     << <<"sub", "omit">>, "\\Mode" >>, << <<"sub", "omit">>, "\\IF15_Probes" >>,
     << <<"sub", "extra">>, TRUE >>,
     << <<"sub", "mode_as_int">>, TRUE >>,
     << <<"cores", 1, "index">>, 1 >>, << <<"cores", 1, "index">>, 2 >>,
     << <<"cores", 1, "index">>, MAXIMUM_SUPPORTED_PROBE_CORE >>,
     << <<"cores", 2, "index">>, 0 >>,
     << <<"cores", 1, "probes_count">>, 4 >>,
     << <<"cores", 2, "probes_count">>, 3 >>,
     << <<"cores", 1, "mem_depth">>, 0 >>,
     << <<"cores", 2, "type">>, "PLL" >>,
     << <<"cores", 2, "version">>, 2 >>,
     << <<"cores", 2, "axi_data_width">>, 64 >>,
     << <<"cores", 1, "parent">>, "wrap" >>, << <<"cores", 2, "parent">>, "none" >>,
     << <<"cores", 2, "parent">>, "both" >>,
     << <<"cores", 2, "omit">>, "\\INDEX" >>,
     << <<"flat", "cells">>, 0 >>, << <<"flat", "cells">>, 2 >>,
     << <<"flat", "kinds", 1>>, "part" >>, << <<"flat", "kinds", 1>>, "split" >>,
     << <<"flat", "kinds", 1>>, "wide" >>, << <<"flat", "kinds", 1>>, "narrow" >>,
     << <<"flat", "kinds", 1>>, "missing" >>, << <<"flat", "kinds", 1>>, "empty" >>,
     << <<"flat", "kinds", 1>>, "const" >>,
     << <<"flat", "kinds", 2>>, "split" >>,
     << <<"flat", "kinds", 3>>, "wide" >>, << <<"flat", "kinds", 3>>, "part" >>,
     << <<"flat", "kinds", 4>>, "wide" >>, << <<"flat", "kinds", 5>>, "missing" >> >>

Applicable(sc, f) ==
  f[1][1] = "cores" => f[1][2] <= Len(sc.cores)

ApplyFault(sc, f) ==
  LET path == f[1] IN
  IF ~Applicable(sc, f) THEN sc
  ELSE IF Len(path) = 1 THEN [sc EXCEPT ![path[1]] = f[2]]
  ELSE IF Len(path) = 2 THEN [sc EXCEPT ![path[1]][path[2]] = f[2]]
  ELSE [sc EXCEPT ![path[1]][path[2]][path[3]] = f[2]]

\* fs: a sequence of indices into Faults, 0 for no change
RECURSIVE ApplyFaults(_, _)
ApplyFaults(sc, fs) ==
  IF fs = <<>> THEN sc
  ELSE ApplyFaults(IF Head(fs) = 0 THEN sc ELSE ApplyFault(sc, Faults[Head(fs)]),
                   Tail(fs))

\* the parameter declarations of a module: a sequence of <<name, Const>>
Uint32Param(name, v) == << name, IntConst(v, 32) >>

CoreParamList(c) ==
  LET all == << << "\\IP_TYPE", StrConst(c.type) >>,
                Uint32Param("\\IP_VERSION", c.version),
                Uint32Param("\\IP_ID", c.id),
                Uint32Param("\\AXI_ADDR_WIDTH", c.axi_addr_width),
                Uint32Param("\\AXI_DATA_WIDTH", c.axi_data_width),
                Uint32Param("\\MEM_DEPTH", c.mem_depth),
                Uint32Param("\\NO_OF_PROBES", c.probes_count),
                Uint32Param("\\INDEX", c.index) >>
  IN SelectSeq(all, LAMBDA e : e[1] # c.omit)

SubParamList(sb) ==
  LET all ==
        << << "\\IP_TYPE", StrConst(sb.type) >>,
           Uint32Param("\\IP_VERSION", sb.version),
           Uint32Param("\\IP_ID", sb.id),
           << "\\Mode", IF sb.mode_as_int THEN IntConst(1, 32)
                        ELSE StrConst(sb.mode) >>,
           << "\\Axi_Type", StrConst(sb.axi_type) >>,
           << "\\Sampling_Clk", StrConst(sb.sampling_clk) >>,
           Uint32Param("\\Cores", sb.cores),
           Uint32Param("\\No_Probes", sb.no_probes),
           Uint32Param("\\No_AXI_Bus", sb.no_axi_bus),
           Uint32Param("\\Probes_Sum", sb.probes_sum),
           Uint32Param("\\AXI_Core_BaseAddress", sb.axi_core_address) >>
        \o (IF sb.extra THEN << << "\\Debug", StrConst("on") >> >> ELSE <<>>)
        \o [i \in 1..MAXIMUM_SUPPORTED_PROBE_CORE |->
              Uint32Param(ProbeWidthKey(i), sb.widths[i])]
        \o [i \in 1..MAXIMUM_SUPPORTED_PROBE_CORE |->
              Uint32Param(IFBaseAddressKey(i), sb.addrs[i])]
        \o [i \in 1..MAXIMUM_SUPPORTED_PROBE_CORE |->
              << IFProbesKey(i),
                 IF i = 1 /\ sb.top_bit
                   THEN [string |-> FALSE, str |-> "",
                         bits |-> BitsLSB(sb.infos[i], 63) \o "1"]
                   ELSE IntConst(sb.infos[i], 64) >>]
  IN SelectSeq(all, LAMBDA e : e[1] # sb.omit)

DesignModule(name, cells, plist) ==
  [name |-> name, cells |-> cells,
   avail_parameters |-> [k \in 1..Len(plist) |-> plist[k][1]],
   parameter_default_values |->
     [n \in {plist[k][1] : k \in 1..Len(plist)} |->
        plist[CHOOSE k \in 1..Len(plist) : plist[k][1] = n][2]]]

InstCell(type, name) == [type |-> type, name |-> name, connections |-> <<>>]

Copies(n, type, name) ==
  [k \in 1..n |-> InstCell(type, IF k = 1 THEN name ELSE name \o "_" \o ToString(k))]

\* the cells instantiating the cores whose parent is one of who
CoreCells(sc, who) ==
  FlatCat([k \in 1..Len(sc.cores) |->
    IF sc.cores[k].parent \in who
      THEN << InstCell(CoreModName(k - 1), "\\u_ocla" \o ToString(k - 1)) >>
    ELSE IF sc.cores[k].parent = "twice" /\ "sub" \in who
      THEN Copies(2, CoreModName(k - 1), "\\u_ocla" \o ToString(k - 1))
    ELSE <<>>])

ProbeWire(p) == "\\dut.sig" \o ToString(p)

WireChunk(wire, wire_width, width, offset) ==
  [wire |-> wire, wire_width |-> wire_width, width |-> width,
   offset |-> offset, data |-> IntConst(0, 1)]

\* what probe p of width w is connected to
ProbeSig(kind, p, w) ==
  CASE kind = "exact" -> << WireChunk(ProbeWire(p), w, w, 0) >>
    [] kind = "part" -> << WireChunk(ProbeWire(p), w + 2, w, 1) >>
    [] kind = "split" ->
         IF w >= 2 THEN << WireChunk(ProbeWire(p) \o "_lo", 1, 1, 0),
                           WireChunk(ProbeWire(p) \o "_hi", w + 1, w - 1, 2) >>
         ELSE << WireChunk(ProbeWire(p), w + 2, w, 1) >>
    [] kind = "wide" -> << WireChunk(ProbeWire(p), w + 1, w + 1, 0) >>
    [] kind = "narrow" ->
         IF w >= 2 THEN << WireChunk(ProbeWire(p), w - 1, w - 1, 0) >> ELSE <<>>
    [] kind = "const" ->
         << [wire |-> "", wire_width |-> 0, width |-> w, offset |-> 0,
             data |-> IntConst(0, w)] >>
    [] OTHER -> <<>>

ProbeConnections(sc) ==
  FlatCat([p \in 1..MAXIMUM_SUPPORTED_PROBE_CORE |->
    IF sc.sub.widths[p] > 0 /\ sc.flat.kinds[p] # "missing"
      THEN << [port |-> "\\probe_" \o ToString(p),
               sig |-> ProbeSig(sc.flat.kinds[p], p, sc.sub.widths[p])] >>
      ELSE <<>>])

\* the cells of the top module after "blackbox <wrapper>" and "flatten"
FlatCells(sc) ==
  LET chain == IF sc.levels = 3 THEN "\\u_soc.u_wrap" ELSE "\\u_wrap" IN
  << [type |-> "$and", name |-> "$and$top.v:10$1", connections |-> <<>>] >>
  \o [k \in 1..sc.flat.cells |->
        [type |-> WrapName,
         name |-> IF k = 1 THEN chain ELSE chain \o "_" \o ToString(k),
         connections |-> << [port |-> "\\clk",
                             sig |-> << WireChunk("\\clk", 1, 1, 0) >>] >>
                         \o ProbeConnections(sc)]]

ReverseSeq(q) == [k \in 1..Len(q) |-> q[Len(q) + 1 - k]]

\* the RTLIL design of a scenario
BuildDesign(sc) ==
  LET subcells == Copies(sc.sub_cells, SubName, "\\u_sub")
      wrapcells == Copies(sc.path_cells, WrapName, "\\u_wrap")
      hier ==
        IF sc.levels = 1
          THEN << DesignModule(TopName, subcells, <<>>) >>
        ELSE IF sc.levels = 2
          THEN << DesignModule(TopName, wrapcells, <<>>),
                  DesignModule(WrapName,
                    subcells \o CoreCells(sc, {"wrap", "both"}), <<>>) >>
        ELSE << DesignModule(TopName, Copies(1, SocName, "\\u_soc"), <<>>),
                DesignModule(SocName, wrapcells, <<>>),
                DesignModule(WrapName,
                  subcells \o CoreCells(sc, {"wrap", "both"}), <<>>) >>
      stray == IF sc.stray_parent
                 THEN << DesignModule(StrayName, Copies(1, SubName, "\\u_dbg"), <<>>) >>
                 ELSE <<>>
      subs == IF sc.n_sub = 0 THEN <<>>
              ELSE << DesignModule(SubName, CoreCells(sc, {"sub", "both"}),
                                   SubParamList(sc.sub)) >>
                   \o (IF sc.n_sub = 2
                         THEN << DesignModule(SecondSubName, <<>>,
                                              SubParamList(sc.sub)) >>
                         ELSE <<>>)
      cores == [k \in 1..Len(sc.cores) |->
                  DesignModule(CoreModName(k - 1), <<>>,
                               CoreParamList(sc.cores[k]))]
      all == hier \o stray \o subs \o cores
  IN [top |-> IF sc.has_top THEN TopName ELSE "",
      modules |-> IF sc.reverse THEN ReverseSeq(all) ELSE all,
      flat |-> FlatCells(sc)]

\* no change, or one of the changes of Faults
FaultChoices == {<<k>> : k \in 0..Len(Faults)}

\* changes of two fields at once: the subsystem instantiates its first core
\* twice and its second core not at all; it instantiates its first core
\* twice and declares Cores=3; the modules are enumerated last to first and
\* two cores declare the same INDEX, or exchange their INDEX
FaultPairs ==
  << << << <<"cores", 1, "parent">>, "twice" >>,
        << <<"cores", 2, "parent">>, "none" >> >>,
     << << <<"cores", 1, "parent">>, "twice" >>, << <<"sub", "cores">>, 3 >> >>,
     << << <<"reverse">>, TRUE >>, << <<"cores", 1, "index">>, 1 >> >>,
     << << <<"reverse">>, TRUE >>, << <<"cores", 2, "index">>, 0 >> >>,
     << << <<"cores", 1, "index">>, 1 >>, << <<"cores", 2, "index">>, 0 >> >> >>

\* the AXI core on one to four buses of either type, alone or behind a
\* native core
AxiScenarios ==
  LET Size(t) == IF t = "AXILite" THEN AXILite_SINGLE_BUS_SIGNALS
                 ELSE AXI4_SINGLE_BUS_SIGNALS
      Alone(t, n) ==
        BaseScenario("AXI", t, n, 0, n * Size(t), <<>>, <<>>,
                     << CoreDesc(0, n * Size(t)) >>)
      Behind(t, n) ==
        BaseScenario("NATIVE_AXI", t, n, 2, 5 + n * Size(t), <<3, 2>>, <<33>>,
                     << CoreDesc(0, 5), CoreDesc(1, n * Size(t)) >>)
  IN [n \in 1..4 |-> Alone("AXILite", n)] \o [n \in 1..4 |-> Alone("AXI4", n)]
     \o [n \in 1..2 |-> Behind("AXILite", n + 1)]
     \o [n \in 1..2 |-> Behind("AXI4", n + 1)]

\* declared Probe widths whose sum passes 2^32: the widths 4, 8, 2 of the
\* three probes in use and 2^31 - 1, 2^31 - 1 (and 2) for probes not in
\* use, which the uint32_t sum takes to 14 (to 12) again
WrapScenarios ==
  << BaseScenario("NATIVE", "", 0, 3, 14,
                  <<4, 8, 2, 2147483647, 2147483647, 2>>, <<33, 3>>,
                  << CoreDesc(0, 12), CoreDesc(1, 2) >>),
     BaseScenario("NATIVE", "", 0, 3, 12,
                  <<4, 8, 2, 2147483647, 2147483647>>, <<33, 3>>,
                  << CoreDesc(0, 12), CoreDesc(1, 2) >>) >>

Init ==
  /\ \/ \E b \in 1..Len(Scenarios), fs \in FaultChoices :
          design = BuildDesign(ApplyFaults(Scenarios[b], fs))
     \/ \E b \in 1..Len(Scenarios), k \in 1..Len(FaultPairs) :
          design = BuildDesign(ApplyFault(ApplyFault(Scenarios[b],
                                 FaultPairs[k][1]), FaultPairs[k][2]))
     \/ \E k \in 1..Len(AxiScenarios) : design = BuildDesign(AxiScenarios[k])
     \/ \E k \in 1..Len(WrapScenarios) : design = BuildDesign(WrapScenarios[k])
  /\ pc = "execute"
  /\ msgs = <<>>
  /\ an = EmptyAnalysis
  /\ json = EmptyJson
  /\ hw = <<>>
  /\ mp = <<>>
  /\ sp = <<>>
  /\ fin = <<>>

Next ==
  \/ Execute
  \/ AnalyzeStart
  \/ Step1GetModules
  \/ Step2CheckCounts
  \/ Step3CheckUnique
  \/ Step4GetInstantiators
  \/ Step5CheckInstantiators
  \/ Step6SetAxi
  \/ Step7SanityCheck
  \/ Step8Blackbox
  \/ Step8Flatten
  \/ Step9GetSignals
  \/ Step10Finalize
  \/ AnalyzeEnd

Spec == Init /\ [][Next]_vars

(***************************************************************************)
(* The parameter specification: one parameter of a module goes through     *)
(* get_module_params' two calls, dump_const and set_param, on a fresh      *)
(* OCLA_DEBUG_SUBSYSTEM_MODULE.  The parameter is a constant of the        *)
(* design, or a literal handed to set_param directly.                      *)
(***************************************************************************)
ParamWidths == << 1, 2, 16, 31, 32, 33, 63, 64 >>
ParamPatterns == << "zeros", "ones", "top", "low" >>

\* the bits, least significant first, of a constant of width w
PatternBits(pat, w) ==
  CASE pat = "zeros" -> PadLeft("", w, "0")
    [] pat = "ones" -> PadLeft("", w, "1")
    [] pat = "top" -> PadLeft("", w - 1, "0") \o "1"
    [] pat = "low" -> "1" \o PadLeft("", w - 1, "0")

ParamStrings == << "", "OCLA", "NATIVE_AXI", "a b", "a\"b", "a\\b", "a\rb" >>

ParamLiterals ==
  << "", "'", "'1", "'101", "3'", "0'", "1'1", "3'101", "03'101", "3'10",
     "4'101", "3'102", "x'1", "3'1'1", "-1", "1x", "12", "\"OCLA\"", "OCLA",
     "\"", "4294967295", "4294967296", "9223372036854775807",
     "9223372036854775808", "18446744073709551615", "99999999999999999999",
     "0012", "65536",
     "4294967297'1", "99999999999999999999'1",
     "32'" \o PadLeft("", 32, "1"), "33'" \o PadLeft("", 33, "1"),
     "33'" \o PadLeft("", 33, "0"),
     "64'" \o PadLeft("1", 64, "0"), "64'0" \o PadLeft("", 63, "1"),
     "64'1" \o PadLeft("", 63, "0"), "64'" \o PadLeft("", 64, "1"),
     "65'" \o PadLeft("1", 65, "0") >>

\* a string slot, a uint32_t slot, a uint64_t slot, and a name outside the
\* schema
ParamSlots == << "\\Mode", "\\No_Probes", IFProbesKey(1), "\\Other" >>

ParamModule == OCLA_DEBUG_SUBSYSTEM_MODULE("\\ocla_debug_subsystem")

Parameter(const, name, value) ==
  [const |-> const, name |-> name, value |-> value, out |-> <<>>]

PInit ==
  /\ \/ \E w \in 1..Len(ParamWidths), pat \in 1..Len(ParamPatterns),
           n \in 1..Len(ParamSlots) :
          /\ sp = Parameter(
                    << [string |-> FALSE,
                        bits |-> PatternBits(ParamPatterns[pat], ParamWidths[w]),
                        str |-> ""] >>, ParamSlots[n], "")
          /\ pc = "p_const"
     \/ \E t \in 1..Len(ParamStrings), n \in 1..Len(ParamSlots) :
          /\ sp = Parameter(<< StrConst(ParamStrings[t]) >>, ParamSlots[n], "")
          /\ pc = "p_const"
     \/ \E v \in 1..Len(ParamLiterals), n \in 1..Len(ParamSlots) :
          /\ sp = Parameter(<<>>, ParamSlots[n], ParamLiterals[v])
          /\ pc = "p_literal"
  /\ msgs = <<>>
  /\ design = <<>>
  /\ hw = <<>>
  /\ mp = <<>>
  /\ an = <<>>
  /\ json = <<>>
  /\ fin = <<>>

\* get_module_params, line 1274: dump_const(param, it->second)
PDumpConst ==
  /\ pc = "p_const"
  /\ sp' = [sp EXCEPT !.value = dump_const(sp.const[1], -1, 0, TRUE)]
  /\ pc' = "p_literal"
  /\ UNCHANGED <<design, msgs, hw, mp, an, json, fin>>

\* get_module_params, line 1275: ip->set_param(json, p, param.str()); an
\* exception of stol / stoll leaves the call without a returned flag
PSetParam ==
  /\ pc = "p_literal"
  /\ LET Returned(r) ==
           /\ sp' = [sp EXCEPT !.out = r]
           /\ msgs' = r.msgs
           /\ pc' = IF r.thrown THEN "p_thrown" ELSE "p_returned"
     IN Returned(set_param(ParamModule, sp.name, sp.value))
  /\ UNCHANGED <<design, hw, mp, an, json, fin>>

PNext == PDumpConst \/ PSetParam

SpecParam == PInit /\ [][PNext]_vars

(***************************************************************************)
(* The alignment specification: finalize applied to a non-AXI core with    *)
(* any short list of fragments, any order of at most two of the probes     *)
(* 0..2, and any widths of these probes.                                   *)
(***************************************************************************)
FinProbes == 0..2

FinOrders ==
  {o \in UNION {[1..l -> FinProbes] : l \in 0..2} :
     \A i, j \in 1..Len(o) : i # j => o[i] # o[j]}

FinFragments == UNION {[1..l -> 1..MaxFragmentWidth] : l \in 0..MaxFragments}

FinCore(widths, order, probes_count) ==
  [OCLA_MODULE("\\ocla") EXCEPT
     !.probes = [k \in 1..Len(widths) |->
                   OCLA_SIGNAL("s" \o ToString(k), "s" \o ToString(k),
                               widths[k], 0, widths[k] > 1)],
     !.probe_order = order,
     !.probes_count = probes_count]

FInit ==
  /\ \E widths \in FinFragments, order \in FinOrders,
        pw \in [FinProbes -> 1..(MaxFragmentWidth + 1)], more \in 0..1 :
       fin = [m |-> FinCore(widths, order, SumSeq(widths) + more),
              probe_widths |-> [k \in 1..MAXIMUM_SUPPORTED_PROBE_CORE |->
                                  IF k - 1 \in FinProbes THEN pw[k - 1] ELSE 0],
              out |-> <<>>]
  /\ pc = "f_start"
  /\ msgs = <<>>
  /\ design = <<>>
  /\ hw = <<>>
  /\ mp = <<>>
  /\ an = <<>>
  /\ json = <<>>
  /\ sp = <<>>

\* analyze, line 721: o->finalize(json, ip_probe_width, 3)
FApply ==
  /\ pc = "f_start"
  /\ LET Returned(r) ==
           /\ fin' = [fin EXCEPT !.out = r]
           /\ msgs' = r.msgs
     IN Returned(finalize(fin.m, fin.probe_widths, 3))
  /\ pc' = "f_done"
  /\ UNCHANGED <<design, hw, mp, an, json, sp>>

FNext == FApply

SpecFin == FInit /\ [][FNext]_vars

(***************************************************************************)
(* Hierarchy claims (under SpecHier).                                      *)
(***************************************************************************)
\* the cells of the design whose type is `name`, as (module, cell) indices
CellsOfType(d, name) ==
  {c \in (1..Len(d.modules)) \X (1..(MaxCells + NumMods)) :
     /\ c[2] <= Len(d.modules[c[1]].cells)
     /\ d.modules[c[1]].cells[c[2]].type = name}

TheCell(d, name) == CHOOSE c \in CellsOfType(d, name) : TRUE
ParentOf(d, name) == d.modules[TheCell(d, name)[1]].name
InstOf(d, name) == d.modules[TheCell(d, name)[1]].cells[TheCell(d, name)[2]].name

\* the upward walk from `name`, `level` instantiations above the subsystem,
\* meets a level with zero or several instantiations, or the top at level 1
RECURSIVE WalkFails(_, _, _)
WalkFails(d, name, level) ==
  IF Cardinality(CellsOfType(d, name)) # 1 THEN TRUE
  ELSE IF ParentOf(d, name) = d.top THEN level + 1 < 2
  ELSE WalkFails(d, ParentOf(d, name), level + 1)

\* C6: check_unique_ocla_debug_subsystem fails whenever a level of the
\* upward walk has zero or more than one instantiation of the current module
\* type, or the top module is reached after one level only.
C6_FailsWhenNotUnique ==
  (pc = "h_done" /\ WalkFails(design, SubName, 0)) => ~hw.status

\* two instances of the instantiator module, found one level above it
C6_Witness ==
  /\ pc = "h_done" /\ ~hw.status /\ hw.level = 2
  /\ Cardinality(CellsOfType(design, hw.module_name)) = 2

\* a strictly linear path: every module from `name` up to the top has
\* exactly one instantiation; the instance names, nearest first
RECURSIVE LinearInsts(_, _)
LinearInsts(d, name) ==
  IF name = d.top THEN <<>>
  ELSE << InstOf(d, name) >> \o LinearInsts(d, ParentOf(d, name))

RECURSIVE IsLinear(_, _)
IsLinear(d, name) ==
  \/ name = d.top
  \/ /\ Cardinality(CellsOfType(d, name)) = 1
     /\ IsLinear(d, ParentOf(d, name))

Unescape(n) == IF Len(n) > 0 /\ SubSeq(n, 1, 1) = "\\" THEN Substr1(n) ELSE n

RECURSIVE SplitDots(_, _, _)
SplitDots(s, i, cur) ==
  IF i > Len(s) THEN << cur >>
  ELSE IF SubSeq(s, i, i) = "." THEN << cur >> \o SplitDots(s, i + 1, "")
  ELSE SplitDots(s, i + 1, cur \o SubSeq(s, i, i))

\* the instance names of a connection chain
ChainNames(c) == IF c = "" THEN <<>> ELSE SplitDots(Unescape(c), 1, "")

Reverse(s) == [k \in 1..Len(s) |-> s[Len(s) + 1 - k]]
Unescaped(s) == [k \in 1..Len(s) |-> Unescape(s[k])]

LinearLevels == Len(LinearInsts(design, SubName))

\* C7 as claimed: for a linear path of L >= 2 levels the check succeeds and
\* the chain holds L instance names, nearest instantiation first.
C7_Original ==
  (pc = "h_done" /\ IsLinear(design, SubName) /\ LinearLevels >= 2) =>
     /\ hw.status
     /\ ChainNames(hw.connection_name) = Unescaped(LinearInsts(design, SubName))

\* C7 amended: for a linear path of L >= 2 levels the check succeeds after L
\* iterations, the instantiator is the module that instantiates the
\* subsystem, and the chain holds the L-1 instance names above the
\* subsystem's own instance, outermost (the instance inside the top) first.
C7_LinearChain ==
  (pc = "h_done" /\ IsLinear(design, SubName) /\ LinearLevels >= 2) =>
     /\ hw.status
     /\ hw.level = LinearLevels
     /\ hw.instantiator = ParentOf(design, SubName)
     /\ ChainNames(hw.connection_name) =
          Unescaped(Reverse(Tail(LinearInsts(design, SubName))))

C7_Witness ==
  /\ pc = "h_done" /\ hw.status
  /\ IsLinear(design, SubName) /\ LinearLevels = 3
  /\ Len(ChainNames(hw.connection_name)) = 2

(***************************************************************************)
(* Mapping claims (under SpecMap).                                         *)
(***************************************************************************)
\* the nibbles of a packed field, least significant first, up to its
\* highest non-zero nibble
RECURSIVE NibblesOf(_)
NibblesOf(v) == IF v = 0 THEN <<>> ELSE << v % 16 >> \o NibblesOf(v \div 16)

NativeCoreCount(sub) == IF sub.mode = "NATIVE" THEN sub.cores ELSE sub.cores - 1

\* the declared width of the probe a nibble names (nibble in 1..15)
NibbleWidth(sub, n) == sub.ip_probe_width[n]

WidthsBefore(sub, ns, j) == SumSeq([k \in 1..(j - 1) |-> NibbleWidth(sub, ns[k])])

MapDone == pc = "m_done"
MapSucceeded == MapDone /\ mp.out.status /\ IsNativeMode(mp.sub.mode)

\* the example of the specification: No_Probes=3, widths 4, 8, 2,
\* IF01_Probes=0x21, IF02_Probes=0x3
MapExample ==
  /\ mp.sub.mode = "NATIVE" /\ mp.sub.cores = 2 /\ mp.sub.no_probes = 3
  /\ SubSeq(mp.sub.ip_probe_width, 1, 3) = <<4, 8, 2>>
  /\ SubSeq(mp.sub.ip_probe_info, 1, 3) = <<33, 3, 0>>

\* C8: on success in NATIVE or NATIVE_AXI mode every consumed nibble p of
\* interface i has probe_to_core_map[p-1] = {i, sum of the widths consumed
\* before it from that interface}, and calculated_ip_core_width[i] is the
\* sum of all widths consumed from interface i; the example gives
\* [12, 2, 0, ...] and {0,0}, {0,4}, {1,0}.
C8_MapOffsets ==
  /\ MapSucceeded =>
       \A i \in 0..(NativeCoreCount(mp.sub) - 1) :
         LET ns == NibblesOf(At(mp.sub.ip_probe_info, i)) IN
         /\ \A j \in 1..Len(ns) :
              mp.out.sub.probe_to_core_map[ns[j]] =
                [core |-> i, offset |-> WidthsBefore(mp.sub, ns, j)]
         /\ At(mp.out.sub.calculated_ip_core_width, i) =
              WidthsBefore(mp.sub, ns, Len(ns) + 1)
  /\ (MapDone /\ MapExample) =>
       /\ mp.out.status
       /\ mp.out.sub.calculated_ip_core_width =
            [k \in 1..MAXIMUM_SUPPORTED_PROBE_CORE |->
               IF k = 1 THEN 12 ELSE IF k = 2 THEN 2 ELSE 0]
       /\ SubSeq(mp.out.sub.probe_to_core_map, 1, 3) =
            << [core |-> 0, offset |-> 0], [core |-> 0, offset |-> 4],
               [core |-> 1, offset |-> 0] >>

C8_Witness == MapSucceeded /\ MapExample

\* a defect of the packed fields named by the claim
NibbleDefect(sub, n) ==
  \/ n = 0
  \/ n > MAXIMUM_SUPPORTED_PROBE_CORE
  \/ n > sub.no_probes
  \/ NibbleWidth(sub, n) = 0

NativeSlotDefect(sub) ==
  \E i \in 0..(NativeCoreCount(sub) - 1) :
    \/ At(sub.ip_probe_info, i) = 0
    \/ \E j \in 1..Len(NibblesOf(At(sub.ip_probe_info, i))) :
         NibbleDefect(sub, NibblesOf(At(sub.ip_probe_info, i))[j])

BeyondSlotDefect(sub) ==
  \E i \in NativeCoreCount(sub)..(MAXIMUM_SUPPORTED_PROBE_CORE - 1) :
    At(sub.ip_probe_info, i) # 0

\* C10: in NATIVE or NATIVE_AXI mode map_probe_core fails whenever a slot
\* below the native core count is all zero, a nibble up to the highest
\* non-zero one is 0 or above No_Probes (or 15), a named probe has width 0,
\* or a slot at or beyond the native core count is not zero.
C10_MapRejects ==
  (MapDone /\ IsNativeMode(mp.sub.mode)
     /\ (NativeSlotDefect(mp.sub) \/ BeyondSlotDefect(mp.sub)))
    => ~mp.out.status

\* only the slot beyond the native cores is wrong, and that is reported
C10_Witness ==
  /\ MapDone /\ IsNativeMode(mp.sub.mode) /\ ~mp.out.status
  /\ ~NativeSlotDefect(mp.sub) /\ BeyondSlotDefect(mp.sub)
  /\ \E k \in 1..Len(msgs) :
       msgs[k].text = "Error: IF03_Probes should be null, but found 0x0000000000000001"

\* the positions (core, place) of the probe_order lists holding probe p
OwnersOf(mods, p) ==
  {<< k, j >> \in (1..Len(mods)) \X (1..MAXIMUM_SUPPORTED_PROBE_CORE) :
     j <= Len(mods[k].probe_order) /\ mods[k].probe_order[j] = p}

\* C11: whenever map_probe_core succeeds in NATIVE or NATIVE_AXI mode, every
\* probe index 0..No_Probes-1 occurs exactly once in exactly one core's
\* probe_order, no other index occurs, every non-AXI core's probe_order is
\* non-empty and the AXI core's probe_order is empty.
C11_ProbeOrderPartition ==
  MapSucceeded =>
    /\ \A p \in 0..(mp.sub.no_probes - 1) :
         Cardinality(OwnersOf(mp.out.mods, p)) = 1
    /\ \A k \in 1..Len(mp.out.mods) :
         /\ \A j \in 1..Len(mp.out.mods[k].probe_order) :
              mp.out.mods[k].probe_order[j] \in 0..(mp.sub.no_probes - 1)
         /\ mp.out.mods[k].is_axi <=> mp.out.mods[k].probe_order = <<>>

\* two native cores share three probes and the AXI core behind them has none
C11_Witness ==
  /\ MapSucceeded /\ mp.sub.mode = "NATIVE_AXI" /\ mp.sub.no_probes = 3
  /\ Len(mp.out.mods) = 3
  /\ Len(mp.out.mods[1].probe_order) = 2 /\ Len(mp.out.mods[2].probe_order) = 1
  /\ mp.out.mods[3].is_axi /\ mp.out.mods[3].probe_order = <<>>

(***************************************************************************)
(* Pipeline claims (under Spec).                                           *)
(***************************************************************************)
StartText == "Start of OCLA Analysis"
EndText == "End of OCLA Analysis"
CheckUniqueCall == "check_unique_ocla_debug_subsystem"

\* the cores and the subsystems the run classified: the lists of analyze
\* while it runs, and the objects step 12 deleted once it has returned
ClassifiedCores ==
  IF pc = "done" THEN an.deleted.ocla_modules ELSE an.ocla_modules

ClassifiedSubsystems ==
  IF pc = "done" THEN an.deleted.ocla_debug_subsystem_modules
  ELSE an.ocla_debug_subsystem_modules

\* analyze has returned, or was left by log_error or by an exception
RunOver == pc \in {"done", "fatal", "aborted"}

IsBlackbox(c) == Len(c) >= 9 /\ SubSeq(c, 1, 9) = "blackbox "
IsRequest(c) == IsBlackbox(c) \/ c = "flatten"
IsError(t) == Len(t) >= 6 /\ SubSeq(t, 1, 6) = "Error:"

HasMessage(t) == \E k \in 1..Len(msgs) : msgs[k].text = t
HasMessagePrefix(t) ==
  \E k \in 1..Len(msgs) :
    Len(msgs[k].text) >= Len(t) /\ SubSeq(msgs[k].text, 1, Len(t)) = t

CalledBefore(k, name) ==
  \E j \in 1..(k - 1) : an.calls[j].call = name /\ an.calls[j].ok

\* C1: 'blackbox <instantiator>' is requested before 'flatten'; both only
\* after classification found at least one core and exactly one subsystem
\* and check_unique_ocla_debug_subsystem and sanity_check succeeded, and
\* never after a stage that failed; get_ocla_signals runs only after both
\* requests; get_modules, check_unique_ocla_debug_subsystem and
\* get_ocla_instantiator never run after flatten.
C1_StageOrder ==
  LET c == an.calls IN
  \A k \in 1..Len(c) :
    /\ IsRequest(c[k].call) =>
         /\ Len(ClassifiedCores) >= 1
         /\ Len(ClassifiedSubsystems) = 1
         /\ Len(an.ocla_instantiator_names) >= 1
         /\ CalledBefore(k, CheckUniqueCall)
         /\ CalledBefore(k, "sanity_check")
         /\ \A j \in 1..(k - 1) : c[j].ok /\ c[j].call # c[k].call
    /\ IsBlackbox(c[k].call) =>
         /\ c[k].call = "blackbox " \o an.ocla_debug_subsystem_instantiator
         /\ \A j \in 1..(k - 1) : c[j].call # "flatten"
    /\ c[k].call = "flatten" => \E j \in 1..(k - 1) : IsBlackbox(c[j].call)
    /\ c[k].call = "get_ocla_signals" =>
         \E i, j \in 1..(k - 1) :
           i < j /\ IsBlackbox(c[i].call) /\ c[j].call = "flatten"
    /\ c[k].call \in {"get_modules", CheckUniqueCall, "get_ocla_instantiator"} =>
         \A j \in 1..(k - 1) : c[j].call # "flatten"

\* a run that issued both requests and then read the flattened connections
C1_Witness ==
  /\ pc = "done"
  /\ \E k \in 1..Len(an.calls) : an.calls[k].call = "get_ocla_signals"
  /\ \E k \in 1..Len(an.calls) : an.calls[k].call = "flatten"

\* C2 as claimed: once a run is over, whatever stage failed, its message
\* list starts with 'Start of OCLA Analysis' and ends with the only
\* 'End of OCLA Analysis' entry.
C2_Original ==
  RunOver =>
    /\ Len(msgs) >= 2
    /\ msgs[1].text = StartText
    /\ msgs[Len(msgs)].text = EndText
    /\ \A k \in 1..(Len(msgs) - 1) : msgs[k].text # EndText

AnyFinalized == \E k \in 1..Len(an.finalized) : an.finalized[k]

AllFinalized ==
  /\ Len(ClassifiedCores) >= 1
  /\ Len(an.finalized) = Len(ClassifiedCores)
  /\ \A k \in 1..Len(an.finalized) : an.finalized[k]

SectionsEmitted == json.has_ocla /\ json.has_ocla_debug_subsystem

\* C3 as claimed: the 'ocla' and 'ocla_debug_subsystem' sections are in the
\* document if and only if at least one core finalized successfully.
C3_Original == RunOver => (SectionsEmitted <=> AnyFinalized)

\* C3 amended: the two sections are in the document if and only if every
\* discovered core finalized successfully; they come together, and the
\* 'ocla' section then has one entry per discovered core.
C3_SectionsIffAllFinalized ==
  RunOver =>
    /\ json.has_ocla <=> json.has_ocla_debug_subsystem
    /\ SectionsEmitted <=> AllFinalized
    /\ SectionsEmitted => Len(json.ocla) = Len(ClassifiedCores)

\* two cores finalized and the sections were written
C3_Witness ==
  pc = "done" /\ SectionsEmitted /\ Len(an.finalized) = 2 /\ AllFinalized

\* C4: when finalize fails for a core the success count is 0 from then on
\* and no later core is finalized; at the end of a run the count is 0 or
\* the number of discovered cores.
C4_FailureZeroesCount ==
  /\ \A k \in 1..Len(an.finalized) :
       ~an.finalized[k] =>
         /\ k = Len(an.finalized)
         /\ an.ocla_count = 0
         /\ pc \in {"msg_end", "done"}
  /\ RunOver => an.ocla_count \in {0, Len(ClassifiedCores)}

\* the first core finalized, the second did not, and the run returned
C4_Witness ==
  pc = "done" /\ an.finalized = << TRUE, FALSE >> /\ an.ocla_count = 0

\* the declared value of a parameter of a module of the design
IsDeclared(m, name) ==
  /\ name \in DOMAIN m.parameter_default_values
  /\ \E k \in 1..Len(m.avail_parameters) : m.avail_parameters[k] = name

\* an unsized or sized number below 2^30
IsSmallNumber(m, name) ==
  /\ IsDeclared(m, name)
  /\ LET c == m.parameter_default_values[name] IN
     /\ ~c.string
     /\ Len(c.bits) \in {32, 64}
     /\ \A i \in 0..(Len(c.bits) - 1) :
          CharAt(c.bits, i) \in BinDigits /\ (i >= 30 => CharAt(c.bits, i) = "0")

NumberOf(m, name) == BitsValue(m.parameter_default_values[name].bits, 0, 30)

IsText(m, name) ==
  IsDeclared(m, name) /\ m.parameter_default_values[name].string

TextOf(m, name) == m.parameter_default_values[name].str

SchemaDeclared(m, ip) ==
  \A name \in DOMAIN ip.params :
    IF ip.params[name].type = "PARAM_IS_STR" THEN IsText(m, name)
    ELSE IsSmallNumber(m, name)

SeqRange(q) == {q[k] : k \in 1..Len(q)}

\* the wrapper instance of the flattened top connects each of the probes
\* 1..n once, to exactly as many bits as the probe is wide
ProbesConnected(cell, m, n) ==
  \A p \in 1..n :
    LET hit == {k \in 1..Len(cell.connections) :
                  cell.connections[k].port = "\\probe_" \o ToString(p)}
    IN /\ Cardinality(hit) = 1
       /\ \A k \in hit :
            /\ Len(cell.connections[k].sig) >= 1
            /\ SumSeq([j \in 1..Len(cell.connections[k].sig) |->
                         cell.connections[k].sig[j].width])
                 = NumberOf(m, ProbeWidthKey(p))
            /\ \A j \in 1..Len(cell.connections[k].sig) :
                 cell.connections[k].sig[j].width <= NumberOf(m, ProbeWidthKey(p))

\* the cells of design d whose type is `name`, as (module, cell) positions
InstancesOf(d, name) ==
  UNION {{<< k, c >> : c \in {x \in 1..Len(d.modules[k].cells) :
                                d.modules[k].cells[x].type = name}} :
           k \in 1..Len(d.modules)}

\* the module holding the one cell of type `name`
InstantiatorOf(d, name) ==
  d.modules[(CHOOSE p \in InstancesOf(d, name) : TRUE)[1]].name

\* from `name`, `level` instantiations above the subsystem, every module up
\* to the top of d is instantiated by exactly one cell, and the top lies at
\* least two instantiations above the subsystem
RECURSIVE UniqueChain(_, _, _)
UniqueChain(d, name, level) ==
  /\ Cardinality(InstancesOf(d, name)) = 1
  /\ IF InstantiatorOf(d, name) = d.top THEN level + 1 >= 2
     ELSE UniqueChain(d, InstantiatorOf(d, name), level + 1)

\* the design of the end-to-end scenario, as analyze receives it: one NATIVE
\* subsystem with Cores=2 and No_Probes=5, cores INDEX=0 / NO_OF_PROBES=3
\* and INDEX=1 / NO_OF_PROBES=2, each instantiated by one cell, which lies
\* in the subsystem module, every parameter of both schemas declared,
\* matching identity and AXI widths, IF01 and IF02 splitting the probes 1..5
\* three and two, Probes_Sum the sum of the widths, distinct base addresses,
\* a unique instantiation chain of at least two levels from the subsystem
\* to the top, and in the flattened top one instance of the module that
\* instantiates the subsystem, with every probe connected at its width
EndToEndDesign(d) ==
  LET subs == SelectSeq(d.modules, LAMBDA m :
                ~match_module_name(m.name, "ocla")
                /\ match_module_name(m.name, "ocla_debug_subsystem"))
      cores == SelectSeq(d.modules, LAMBDA m : match_module_name(m.name, "ocla"))
      wraps == SelectSeq(d.flat, LAMBDA c :
                 c.type = InstantiatorOf(d, subs[1].name))
  IN
  /\ Len(subs) = 1 /\ Len(cores) = 2
  /\ UniqueChain(d, subs[1].name, 0)
  /\ Len(wraps) = 1
  /\ SchemaDeclared(subs[1], OCLA_DEBUG_SUBSYSTEM_MODULE(""))
  /\ \A k \in 1..2 : SchemaDeclared(cores[k], OCLA_MODULE(""))
  /\ LET sb == subs[1]
         n1 == NibblesOf(NumberOf(sb, IFProbesKey(1)))
         n2 == NibblesOf(NumberOf(sb, IFProbesKey(2)))
     IN
     /\ TextOf(sb, "\\Mode") = "NATIVE" /\ TextOf(sb, "\\IP_TYPE") = "OCLA"
     /\ NumberOf(sb, "\\Cores") = 2 /\ NumberOf(sb, "\\No_Probes") = 5
     /\ \E c0, c1 \in 1..2 :
          /\ NumberOf(cores[c0], "\\INDEX") = 0
          /\ NumberOf(cores[c0], "\\NO_OF_PROBES") = 3
          /\ NumberOf(cores[c1], "\\INDEX") = 1
          /\ NumberOf(cores[c1], "\\NO_OF_PROBES") = 2
     /\ \A k \in 1..2 :
          /\ TextOf(cores[k], "\\IP_TYPE") = TextOf(sb, "\\IP_TYPE")
          /\ NumberOf(cores[k], "\\IP_VERSION") = NumberOf(sb, "\\IP_VERSION")
          /\ NumberOf(cores[k], "\\IP_ID") = NumberOf(sb, "\\IP_ID")
          /\ NumberOf(cores[k], "\\MEM_DEPTH") > 0
          /\ NumberOf(cores[k], "\\AXI_ADDR_WIDTH")
               = NumberOf(cores[1], "\\AXI_ADDR_WIDTH")
          /\ NumberOf(cores[k], "\\AXI_DATA_WIDTH")
               = NumberOf(cores[1], "\\AXI_DATA_WIDTH")
     /\ \A k \in 1..2 :
          /\ Cardinality(InstancesOf(d, cores[k].name)) = 1
          /\ InstantiatorOf(d, cores[k].name) = sb.name
     /\ Len(n1) = 3 /\ Len(n2) = 2 /\ SeqRange(n1) \cup SeqRange(n2) = 1..5
     /\ \A i \in 3..MAXIMUM_SUPPORTED_PROBE_CORE :
          NumberOf(sb, IFProbesKey(i)) = 0
     /\ \A i \in 1..MAXIMUM_SUPPORTED_PROBE_CORE :
          NumberOf(sb, ProbeWidthKey(i)) = IF i <= 5 THEN 1 ELSE 0
     /\ NumberOf(sb, "\\Probes_Sum") = 5
     /\ NumberOf(sb, IFBaseAddressKey(1)) # NumberOf(sb, IFBaseAddressKey(2))
     /\ ProbesConnected(wraps[1], sb, 5)

\* analyze was entered
Received == pc \notin {"execute", "option_error", "start"}

\* C5: when analyze receives the end-to-end design, the run is not left by
\* log_error or by an exception, and it ends with success count 2, two core
\* entries and the subsystem section written, and no message that begins
\* with 'Error:'.
C5_EndToEnd ==
  (Received /\ EndToEndDesign(an.given)) =>
    /\ pc \notin {"fatal", "aborted"}
    /\ \A k \in 1..Len(msgs) : ~IsError(msgs[k].text)
    /\ pc = "done" =>
         /\ an.ocla_count = 2
         /\ json.has_ocla /\ Len(json.ocla) = 2
         /\ json.has_ocla_debug_subsystem

\* the scenario ran to its end through a three-level chain
C5_Witness ==
  /\ pc = "done" /\ EndToEndDesign(an.given) /\ an.ocla_count = 2
  /\ an.ocla_debug_subsystem_connection_name = "\\u_soc.u_wrap"

\* the subsystem the run classified
TheSubsystem == ClassifiedSubsystems[1]

\* a probe index is named twice by the nibbles of the packed IF fields
DuplicateInFields(sub) ==
  LET all == FlatCat([i \in 1..MAXIMUM_SUPPORTED_PROBE_CORE |->
               NibblesOf(sub.ip_probe_info[i])])
  IN \E j, k \in 1..Len(all) : j < k /\ all[j] # 0 /\ all[j] = all[k]

MapInvoked == HasMessage("Probe <-> Core information mapping must be valid")
DuplicateReported == HasMessagePrefix("Error: Duplicated Probe")

SanityFailed ==
  \E k \in 1..Len(an.calls) :
    an.calls[k] = [call |-> "sanity_check", ok |-> FALSE]

\* C9 as claimed: when map_probe_core sweeps packed IF fields that name a
\* probe index twice, it fails with a 'Duplicated Probe' message, a final
\* success count of 0 and no 'ocla' section.
C9_Original ==
  (pc = "done" /\ Len(ClassifiedSubsystems) = 1 /\ MapInvoked
     /\ IsNativeMode(TheSubsystem.mode)
     /\ DuplicateInFields(TheSubsystem)) =>
    /\ MapInvoked /\ SanityFailed
    /\ DuplicateReported
    /\ an.ocla_count = 0
    /\ ~json.has_ocla

\* what the sweep of map_probe_core meets, in order: the nibbles of the
\* slots of the native cores (0 for a null slot), then 0 for the first
\* non-null slot behind them
SweepOrder(sub) ==
  LET native == NativeCoreCount(sub)
      beyond == {i \in (native + 1)..MAXIMUM_SUPPORTED_PROBE_CORE :
                   sub.ip_probe_info[i] # 0}
  IN FlatCat([i \in 1..native |->
        IF sub.ip_probe_info[i] = 0 THEN << 0 >>
        ELSE NibblesOf(sub.ip_probe_info[i])])
     \o (IF beyond = {} THEN <<>> ELSE << 0 >>)

SweepDefect(sub, q, k) ==
  NibbleDefect(sub, q[k]) \/ \E j \in 1..(k - 1) : q[j] = q[k]

\* the first defect the sweep meets is the second naming of a probe
DuplicateMetFirst(sub) ==
  LET q == SweepOrder(sub) IN
  \E k \in 1..Len(q) :
    /\ ~NibbleDefect(sub, q[k])
    /\ \E j \in 1..(k - 1) : q[j] = q[k]
    /\ \A j \in 1..(k - 1) : ~SweepDefect(sub, q, j)

\* C9 amended: in NATIVE or NATIVE_AXI mode, when sanity_check reaches
\* map_probe_core and a probe index is named twice in the packed IF fields,
\* map_probe_core fails, the final success count is 0 and no 'ocla' section
\* is written; the log holds a 'Duplicated Probe' message exactly when the
\* second naming is the first defect the sweep meets.
C9_DuplicateRejected ==
  (pc = "done" /\ Len(ClassifiedSubsystems) = 1 /\ MapInvoked
     /\ IsNativeMode(TheSubsystem.mode)) =>
    /\ DuplicateInFields(TheSubsystem) =>
         SanityFailed /\ an.ocla_count = 0 /\ ~json.has_ocla
    /\ DuplicateReported <=> DuplicateMetFirst(TheSubsystem)

\* a probe named by two interfaces was reported
C9_Witness ==
  /\ pc = "done" /\ Len(ClassifiedSubsystems) = 1 /\ MapInvoked
  /\ IsNativeMode(TheSubsystem.mode)
  /\ DuplicateReported /\ an.ocla_count = 0
  /\ \E p \in 1..MAXIMUM_SUPPORTED_PROBE_CORE :
       /\ p \in SeqRange(NibblesOf(TheSubsystem.ip_probe_info[1]))
       /\ p \in SeqRange(NibblesOf(TheSubsystem.ip_probe_info[2]))

\* the cells of the design that instantiate the module called name, each with
\* the module it lies in
InstantiatingCells(d, name) ==
  {<< m, c >> \in (1..Len(d.modules)) \X (1..MaxCells) :
     c <= Len(d.modules[m].cells) /\ d.modules[m].cells[c].type = name}

\* sanity_check has just returned success
SanityPassed == pc = "blackbox"

\* C12 as claimed: whenever sanity_check succeeds, each core module has an
\* instantiating cell and every cell instantiating a core module lies in
\* the module that bears the subsystem's name.
C12_Original ==
  SanityPassed =>
    \A k \in 1..Len(ClassifiedCores) :
      /\ InstantiatingCells(design, ClassifiedCores[k].name) # {}
      /\ \A mc \in InstantiatingCells(design, ClassifiedCores[k].name) :
           design.modules[mc[1]].name = TheSubsystem.name

\* get_ocla_signals has returned success
SignalsRetrieved ==
  \E k \in 1..Len(an.calls) :
    an.calls[k] = [call |-> "get_ocla_signals", ok |-> TRUE]

\* the fixed table of the subsystem's AXI type
AxiTableOf(sub) ==
  IF sub.axi_type = "AXILite" THEN AXILiteSignals ELSE AXI4Signals

\* the fragments of AXI module m, n of them per bus, are the table's names in
\* the table's order, bus after bus, numbered from 1 iff there are several buses
AxiFragmentsPerBus(m, sub, n) ==
  /\ Len(m.probes) = sub.no_axi_bus * n
  /\ n = Len(AxiTableOf(sub))
  /\ \A b \in 1..sub.no_axi_bus : \A k \in 1..n :
       LET p == m.probes[(b - 1) * n + k] IN
       /\ p.width = AxiTableOf(sub)[k][2]
       /\ p.fullname = AxiTableOf(sub)[k][1]
            \o (IF sub.no_axi_bus > 1 THEN "_" \o ToString(b) ELSE "")

\* C13 as claimed: the AXI bridge core gets 18 fragments per bus for AXILite
\* and 37 per bus for AXI4 (36 for two AXILite buses, 18 for one).
C13_Original ==
  SignalsRetrieved =>
    \A k \in 1..Len(ClassifiedCores) :
      ClassifiedCores[k].is_axi =>
        Len(ClassifiedCores[k].probes)
          = TheSubsystem.no_axi_bus
              * (IF TheSubsystem.axi_type = "AXILite" THEN 18 ELSE 37)

\* C13: once get_ocla_signals has succeeded, the AXI bridge core holds, per
\* bus, one fragment for each entry of the fixed table of its AXI type, 19
\* for AXILite and 44 for AXI4, in table order and with the table's widths;
\* every name carries the suffix _<bus number from 1> when No_AXI_Bus > 1
\* and no suffix when No_AXI_Bus = 1.
C13_AxiFragments ==
  SignalsRetrieved =>
    \A k \in 1..Len(ClassifiedCores) :
      ClassifiedCores[k].is_axi =>
        AxiFragmentsPerBus(ClassifiedCores[k], TheSubsystem,
          IF TheSubsystem.axi_type = "AXILite" THEN 19 ELSE 44)

C13_Witness ==
  /\ pc = "done" /\ SignalsRetrieved
  /\ TheSubsystem.mode = "AXI" /\ TheSubsystem.axi_type = "AXILite"
  /\ TheSubsystem.no_axi_bus = 2
  /\ ClassifiedCores[1].is_axi
  /\ Len(ClassifiedCores[1].probes) = 38
  /\ ClassifiedCores[1].probes[1].fullname = "AWADDR_1"
  /\ ClassifiedCores[1].probes[20].fullname = "AWADDR_2"

\* the widths of the fragments lo..hi of module m
FragmentWidths(m, lo, hi) == [j \in 1..(hi - lo + 1) |-> m.probes[lo + j - 1].width]

\* C14: once get_ocla_signals has succeeded for an AXI core (whose
\* NO_OF_PROBES passed sanity_check), the widths of its fragments sum to 152
\* per bus for AXILite and to 250 per bus for AXI4, the total width equals
\* the core's NO_OF_PROBES, and finalize succeeds for that core whenever it
\* is applied to it.
C14_AxiWidths ==
  SignalsRetrieved =>
    \A k \in 1..Len(ClassifiedCores) :
      ClassifiedCores[k].is_axi =>
        LET m == ClassifiedCores[k]
            n == Len(m.probes) \div TheSubsystem.no_axi_bus
        IN /\ Len(m.probes) = n * TheSubsystem.no_axi_bus
           /\ \A b \in 1..TheSubsystem.no_axi_bus :
                SumSeq(FragmentWidths(m, (b - 1) * n + 1, b * n))
                  = (IF TheSubsystem.axi_type = "AXILite" THEN 152 ELSE 250)
           /\ SumSeq(FragmentWidths(m, 1, Len(m.probes))) = m.probes_count
           /\ k <= Len(an.finalized) => an.finalized[k]

C14_Witness ==
  /\ pc = "done" /\ SignalsRetrieved
  /\ TheSubsystem.mode = "NATIVE_AXI" /\ TheSubsystem.axi_type = "AXI4"
  /\ TheSubsystem.no_axi_bus = 2
  /\ ClassifiedCores[2].is_axi /\ ClassifiedCores[2].probes_count = 500
  /\ an.finalized = << TRUE, TRUE >>

\* sanity_check has returned success
SanitySucceeded ==
  \E k \in 1..Len(an.calls) :
    an.calls[k] = [call |-> "sanity_check", ok |-> TRUE]

\* NO_OF_PROBES of the AXI core, counted in both sums when the mode is not
\* NATIVE
AxiShare ==
  IF TheSubsystem.mode # "NATIVE"
    THEN ClassifiedCores[Len(ClassifiedCores)].probes_count ELSE 0

\* the sum of s[lo], ..., s[hi] on 64 bits
RECURSIVE SumLimbs(_, _, _)
SumLimbs(s, lo, hi) ==
  IF lo > hi THEN ZeroLimbs
  ELSE IF lo = hi THEN Limbs(s[lo])
  ELSE AddLimbs(SumLimbs(s, lo, (lo + hi) \div 2),
                SumLimbs(s, (lo + hi) \div 2 + 1, hi))

\* the sums of the 15 declared Probe widths and of the 15 calculated core
\* widths, each with the AXI share, as numbers of any size
DeclaredSum ==
  AddLimbs(SumLimbs(TheSubsystem.ip_probe_width, 1,
                    MAXIMUM_SUPPORTED_PROBE_CORE), Limbs(AxiShare))
CalculatedSum ==
  AddLimbs(SumLimbs(TheSubsystem.calculated_ip_core_width, 1,
                    MAXIMUM_SUPPORTED_PROBE_CORE), Limbs(AxiShare))

Within32Bits(l) == l[3] = 0 /\ l[4] = 0

\* C15: after a successful sanity_check whose sums stay within 32 bits,
\* Probes_Sum equals the sum of the 15 declared Probe widths and the sum of
\* the 15 calculated core widths, each increased by the AXI core's
\* NO_OF_PROBES when the mode is not NATIVE; so the two sums are equal, and
\* every declared Probe width at an index >= No_Probes is zero.
C15_ProbesSum ==
  (SanitySucceeded /\ Within32Bits(DeclaredSum) /\ Within32Bits(CalculatedSum))
    => /\ DeclaredSum = Limbs(TheSubsystem.probes_sum)
       /\ CalculatedSum = Limbs(TheSubsystem.probes_sum)
       /\ SumLimbs(TheSubsystem.ip_probe_width, 1, MAXIMUM_SUPPORTED_PROBE_CORE)
            = SumLimbs(TheSubsystem.calculated_ip_core_width, 1,
                       MAXIMUM_SUPPORTED_PROBE_CORE)
       /\ \A i \in TheSubsystem.no_probes..(MAXIMUM_SUPPORTED_PROBE_CORE - 1) :
            Equal(At(TheSubsystem.ip_probe_width, i), 0)

\* the case C15 leaves out: the declared widths 4, 8, 2 and, beyond
\* No_Probes, 2^31 - 1, 2^31 - 1, 2 sum to 2^32 + 14, and sanity_check
\* succeeds against Probes_Sum = 14
WrappedSumAccepted ==
  /\ SanitySucceeded /\ ~Within32Bits(DeclaredSum)
  /\ TheSubsystem.probes_sum = 14 /\ TheSubsystem.no_probes = 3
  /\ At(TheSubsystem.ip_probe_width, 3) = 2147483647

C15_Witness ==
  /\ SanitySucceeded /\ TheSubsystem.mode = "NATIVE_AXI"
  /\ TheSubsystem.no_probes = 2 /\ TheSubsystem.probes_sum = 255
  /\ SubSeq(TheSubsystem.ip_probe_width, 1, 3) = << 3, 2, 0 >>
  /\ SubSeq(TheSubsystem.calculated_ip_core_width, 1, 2) = << 5, 0 >>
  /\ AxiShare = 250

\* two cores whose INDEX selects slots with the same IF base address
SharedBaseAddress ==
  \E j, k \in 1..Len(ClassifiedCores) :
    /\ j # k
    /\ ClassifiedCores[j].index < MAXIMUM_SUPPORTED_PROBE_CORE
    /\ ClassifiedCores[k].index < MAXIMUM_SUPPORTED_PROBE_CORE
    /\ At(TheSubsystem.ip_address, ClassifiedCores[j].index)
         = At(TheSubsystem.ip_address, ClassifiedCores[k].index)

\* C16: after a successful sanity_check every core's base_address is the
\* subsystem's IF base address of the slot given by the core's INDEX and the
\* base addresses of two distinct cores differ; when two cores map to the
\* same address sanity_check does not succeed.
C16_BaseAddresses ==
  /\ SanitySucceeded =>
       /\ \A k \in 1..Len(ClassifiedCores) :
            ClassifiedCores[k].base_address
              = At(TheSubsystem.ip_address, ClassifiedCores[k].index)
       /\ \A j, k \in 1..Len(ClassifiedCores) :
            j # k => ClassifiedCores[j].base_address
                       # ClassifiedCores[k].base_address
  /\ (pc \notin {"start", "get_modules"} /\ Len(ClassifiedSubsystems) = 1
      /\ SharedBaseAddress) => ~SanitySucceeded

C16_Witness ==
  /\ SanitySucceeded /\ Len(ClassifiedCores) = 2
  /\ [k \in 1..2 |-> ClassifiedCores[k].index] = << 0, 1 >>
  /\ SubSeq(TheSubsystem.ip_address, 1, 2) = << 16, 32 >>
  /\ [k \in 1..2 |-> ClassifiedCores[k].base_address] = << 16, 32 >>

\* what get_modules makes of module m when it is the only module seen
ClassifiedAlone(m) ==
  ClassifyModule([ocla_modules |-> <<>>, ocla_debug_subsystem_modules |-> <<>>,
                  thrown |-> FALSE, msgs |-> <<>>], m)

NamesOf(list) == {list[k].name : k \in 1..Len(list)}

\* get_modules has just ended
ModulesClassified == pc \in {"check_counts", "aborted"}

\* C19 as claimed: when get_modules has ended, a module is in the core list
\* (the subsystem list) exactly if it is a candidate whose parameters all
\* decode, leave no slot unassigned and pass the type check: an ill-formed
\* candidate is discarded alone and the well-formed candidates of the same
\* design are still qualified.
C19_Original ==
  ModulesClassified =>
    \A k \in 1..Len(design.modules) :
      /\ design.modules[k].name \in NamesOf(ClassifiedCores)
           <=> Len(ClassifiedAlone(design.modules[k]).ocla_modules) = 1
      /\ design.modules[k].name \in NamesOf(ClassifiedSubsystems)
           <=> Len(ClassifiedAlone(design.modules[k])
                     .ocla_debug_subsystem_modules) = 1

\* the announcements of the checks of sanity_check that have one, in the
\* order of the code: INDEX sequence, instantiator name, type/version/id,
\* AXI widths, probe-to-core mapping, NO_OF_PROBES per core, unused widths,
\* Probes_Sum (declared), Probes_Sum (calculated), base addresses
SanityHeaders ==
  << "Check module parameter INDEX sequence",
     "All modules should be instantiated by",
     "Parameter IP_TYPE=",
     "Parameter AXI_ADDR_WIDTH=",
     "Probe <-> Core information mapping must be valid",
     "Parameter NO_OF_PROBES and Param{x}_Width must match",
     "Unused Probe[",
     "Parameter PROBES_SUM versus Probe{x}_Width",
     "Parameter PROBES_SUM versus calculated Core{x}_Width",
     "Parameter IF[01.." >>

StartsWith(t, h) == Len(t) >= Len(h) /\ SubSeq(t, 1, Len(h)) = h

\* where check i announced itself
HeaderPositions(i) ==
  {k \in 1..Len(msgs) : msgs[k].space = 1 /\ StartsWith(msgs[k].text, SanityHeaders[i])}

\* where a check of sanity_check (or map_probe_core within it) reported an error
SanityErrorPositions ==
  {k \in 1..Len(msgs) :
     /\ msgs[k].space > 0
     /\ \E j \in 1..(k - 1) : msgs[j] = Msg(0, "Sanity Check")
     /\ \/ IsError(msgs[k].text)
        \/ StartsWith(msgs[k].text, "Found unexpected instantiator")}

\* sanity_check was the last stage analyze called
SanityReturned ==
  Len(an.calls) > 0 /\ an.calls[Len(an.calls)].call = "sanity_check"

\* C22: sanity_check runs its checks in the fixed order (instantiator count,
\* Cores count, INDEX sequence, instantiator name, type/version/id, AXI
\* widths, mapping, NO_OF_PROBES, unused widths, the two Probes_Sum checks,
\* base addresses); after a check that reported an error no later check
\* runs (a failed instantiator count leaves the Cores count untested); when
\* the mapping check was not reached map_probe_core has not acted, when
\* the address check was not reached no base_address is written, and the
\* function returns failure exactly when a check failed.
C22_OrderedChecks ==
  SanityReturned =>
    /\ \A i \in 1..Len(SanityHeaders) : Cardinality(HeaderPositions(i)) <= 1
    /\ \A i \in 2..Len(SanityHeaders) :
         \A p \in HeaderPositions(i) : \E q \in HeaderPositions(i - 1) : q < p
    /\ \A e \in SanityErrorPositions :
         \A i \in 1..Len(SanityHeaders) : \A p \in HeaderPositions(i) : p < e
    /\ HasMessagePrefix("Error: Not all the OCLA module") =>
         ~HasMessagePrefix("Error: OCLA Debug Subsystem paramter CORES=")
    /\ SanityFailed <=> SanityErrorPositions # {}
    /\ SanitySucceeded => HeaderPositions(Len(SanityHeaders)) # {}
    /\ HeaderPositions(5) = {} =>
         /\ \A k \in 1..Len(ClassifiedCores) :
              ClassifiedCores[k].probe_order = <<>>
         /\ TheSubsystem.calculated_ip_core_width = Zero15
         /\ TheSubsystem.probe_to_core_map = NoMap15
    /\ HeaderPositions(Len(SanityHeaders)) = {} =>
         /\ SanityFailed
         /\ \A k \in 1..Len(ClassifiedCores) :
              ClassifiedCores[k].base_address = 0

C22_Witness ==
  /\ SanityReturned /\ SanityFailed
  /\ HeaderPositions(6) # {} /\ HeaderPositions(7) = {}
  /\ \E e \in SanityErrorPositions : \A p \in HeaderPositions(6) : p < e
  /\ \E k \in 1..Len(ClassifiedCores) : ClassifiedCores[k].probe_order # <<>>
  /\ \A k \in 1..Len(ClassifiedCores) : ClassifiedCores[k].base_address = 0

\* get_modules has returned
ModulesCollected ==
  \E k \in 1..Len(an.calls) : an.calls[k] = [call |-> "get_modules", ok |-> TRUE]

\* two qualified cores declare the same INDEX
SharedIndex ==
  \E j, k \in 1..Len(ClassifiedCores) :
    j # k /\ ClassifiedCores[j].index = ClassifiedCores[k].index

\* sanity_check reached its INDEX-sequence check
IndexChecked == HeaderPositions(1) # {}

\* C23: whatever the order in which the modules are enumerated, the core
\* list built by get_modules is sorted by non-decreasing INDEX; when two
\* qualified cores declare the same INDEX and sanity_check reaches the
\* INDEX-sequence check, it fails there; the check passes only if the k-th
\* core of the list has INDEX k, for every k from 0.
C23_SortedByIndex ==
  /\ ModulesCollected =>
       \A j, k \in 1..Len(ClassifiedCores) :
         j < k => ClassifiedCores[j].index <= ClassifiedCores[k].index
  /\ (SanityReturned /\ IndexChecked /\ SharedIndex) =>
       /\ SanityFailed
       /\ HasMessagePrefix("Error: Module " \o ClassifiedCores[1].name
                             \o " has unexpected INDEX")
            \/ HasMessagePrefix("Error: Module " \o ClassifiedCores[2].name
                                  \o " has unexpected INDEX")
       /\ HeaderPositions(2) = {}
  /\ (SanityReturned /\ HeaderPositions(2) # {}) =>
       /\ Len(ClassifiedCores) = TheSubsystem.cores
       /\ \A k \in 1..Len(ClassifiedCores) : ClassifiedCores[k].index = k - 1

C23_Witness ==
  /\ SanityReturned /\ IndexChecked /\ SharedIndex /\ SanityFailed
  /\ design.modules[1].name = CoreModName(1)
  /\ [k \in 1..2 |-> ClassifiedCores[k].name]
       = << CoreModName(1), CoreModName(0) >>
  /\ [k \in 1..2 |-> ClassifiedCores[k].index] = << 0, 0 >>

\* the fragments of one connection, in the order the netlist supplies its
\* chunks (least significant first)
ChunkSignals(sig) ==
  [k \in 1..Len(sig) |-> dump_sigchunk(sig[k], Len(sig) = 1).signal]

\* the fragments of the connection of cell named port, none when there is no
\* such connection
ConnectionSignals(cell, port, most_significant_first) ==
  FlatCat([k \in 1..Len(cell.connections) |->
    IF cell.connections[k].port # port THEN <<>>
    ELSE IF most_significant_first
      THEN ReverseSeq(ChunkSignals(cell.connections[k].sig))
    ELSE ChunkSignals(cell.connections[k].sig)])

\* the concatenation over probe_order, in declaration order, of the
\* fragments of the connections probe_{p+1} of cell
ProbeOrderSignals(m, cell, most_significant_first) ==
  FlatCat([i \in 1..Len(m.probe_order) |->
    ConnectionSignals(cell, "\\probe_" \o ToString(m.probe_order[i] + 1),
                      most_significant_first)])

\* the cells of the instantiator's type in the flattened top module
InstantiatorCells ==
  SelectSeq(TopCells(design),
            LAMBDA c : c.type = an.ocla_debug_subsystem_instantiator)

\* C24, as stated, for a top module with one instantiator cell: the
\* fragments of a multi-fragment connection appear most significant first.
C24_Original ==
  (SignalsRetrieved /\ Len(InstantiatorCells) = 1) =>
    \A k \in 1..Len(ClassifiedCores) :
      ~ClassifiedCores[k].is_axi =>
        \A c \in 1..Len(InstantiatorCells) :
          ClassifiedCores[k].probes
            = ProbeOrderSignals(ClassifiedCores[k], InstantiatorCells[c], TRUE)

\* C24: after get_ocla_signals has succeeded, the fragment list of every
\* non-AXI core is the concatenation, over the entries p of its probe_order
\* in declaration order, of the fragments of connection probe_{p+1} of the
\* instantiator cell, the fragments of one connection in the order the
\* netlist supplies its chunks, least significant first; with several cells
\* of the instantiator's type the list of a later cell precedes the list of
\* an earlier one.
C24_FragmentOrder ==
  SignalsRetrieved =>
    \A k \in 1..Len(ClassifiedCores) :
      ~ClassifiedCores[k].is_axi =>
        ClassifiedCores[k].probes
          = FlatCat([c \in 1..Len(InstantiatorCells) |->
              ProbeOrderSignals(ClassifiedCores[k],
                InstantiatorCells[Len(InstantiatorCells) + 1 - c], FALSE)])

C24_Witness ==
  /\ SignalsRetrieved
  /\ Len(InstantiatorCells) = 1
  /\ \E k \in 1..Len(ClassifiedCores) :
       LET m == ClassifiedCores[k] IN
       /\ ~m.is_axi
       /\ \E i \in 1..Len(m.probes) - 1 : \E p \in 1..Len(m.probe_order) :
            /\ m.probes[i].name
                 = "sig" \o ToString(m.probe_order[p] + 1) \o "_lo"
            /\ m.probes[i + 1].name
                 = "sig" \o ToString(m.probe_order[p] + 1) \o "_hi"
            /\ m.probes[i].offset = 0 /\ m.probes[i + 1].offset = 2

\* get_ocla_signals has returned, with success or failure
SignalsReturned ==
  \E k \in 1..Len(an.calls) : an.calls[k].call = "get_ocla_signals"

\* for some non-AXI core and some entry of its probe_order, an instantiator
\* cell has no connection of that probe's name, or one without fragments
ProbeUnconnected ==
  \E k \in 1..Len(ClassifiedCores) :
    /\ ~ClassifiedCores[k].is_axi
    /\ \E i \in 1..Len(ClassifiedCores[k].probe_order) :
         \E c \in 1..Len(InstantiatorCells) :
           ConnectionSignals(InstantiatorCells[c],
             "\\probe_" \o ToString(ClassifiedCores[k].probe_order[i] + 1),
             FALSE) = <<>>

\* get_ocla_signals failed, finalize was called for no core and no core
\* counts as a success
SignalsFailedAndNothingFinalized ==
  /\ \E k \in 1..Len(an.calls) :
       an.calls[k] = [call |-> "get_ocla_signals", ok |-> FALSE]
  /\ \A k \in 1..Len(an.calls) : an.calls[k].call # "finalize"
  /\ an.ocla_count = 0
  /\ an.finalized = <<>>
  /\ HasMessagePrefix("Error: Fail to get probe signals")

\* C25, as stated: a top module without a cell of the instantiator's type
\* makes get_ocla_signals fail, whatever the cores are.
C25_Original ==
  (SignalsReturned /\ (ProbeUnconnected \/ Len(InstantiatorCells) = 0)) =>
    SignalsFailedAndNothingFinalized

\* C25: get_ocla_signals fails whenever, for some non-AXI core and some
\* entry p of its probe_order, the instantiator cell has no connection
\* probe_{p+1} or that connection has no fragments, and whenever there is a
\* non-AXI core and the top module has no cell of the instantiator's type;
\* after the failure finalize is called for no core and the success count
\* stays 0.
C25_SignalsFail ==
  (SignalsReturned
     /\ \/ ProbeUnconnected
        \/ /\ Len(InstantiatorCells) = 0
           /\ \E k \in 1..Len(ClassifiedCores) : ~ClassifiedCores[k].is_axi) =>
    SignalsFailedAndNothingFinalized

C25_Witness ==
  /\ pc = "done" /\ SignalsReturned /\ ProbeUnconnected
  /\ Len(InstantiatorCells) = 1
  /\ SignalsFailedAndNothingFinalized
  /\ HasMessagePrefix("Fail to find the connection")

\* check_unique_ocla_debug_subsystem has returned success
UniqueSucceeded ==
  \E k \in 1..Len(an.calls) : an.calls[k] = [call |-> CheckUniqueCall, ok |-> TRUE]

\* the calls of run_pass("blackbox ...")
BlackboxCalls ==
  {k \in 1..Len(an.calls) :
     StartsWith(an.calls[k].call, "blackbox ") \/ an.calls[k].call = "blackbox"}

\* C29: when check_unique_ocla_debug_subsystem succeeds, the instantiator
\* name it returns is not empty, differs from the top module and names the
\* one module that holds a cell of the subsystem's type (seen on the design
\* before it is blackboxed); blackbox is issued for that name only, never
\* for the top module and never for an empty name.
C29_InstantiatorNamed ==
  /\ UniqueSucceeded =>
       /\ an.ocla_debug_subsystem_instantiator # ""
       /\ an.ocla_debug_subsystem_instantiator # design.top
       /\ BlackboxCalls = {} =>
            /\ Cardinality(InstantiatingCells(design, TheSubsystem.name)) = 1
            /\ \A mc \in InstantiatingCells(design, TheSubsystem.name) :
                 design.modules[mc[1]].name = an.ocla_debug_subsystem_instantiator
  /\ \A k \in BlackboxCalls :
       /\ UniqueSucceeded
       /\ an.calls[k].call = "blackbox " \o an.ocla_debug_subsystem_instantiator
       /\ an.calls[k].call \notin {"blackbox", "blackbox ", "blackbox " \o design.top}

C29_Witness ==
  /\ UniqueSucceeded
  /\ BlackboxCalls # {}
  /\ Len(design.modules) >= 3
  /\ design.modules[2].name = SocName
  /\ an.ocla_debug_subsystem_instantiator = WrapName

\* the subscripts of the 15-slot arrays
ArraySlots == 0..(MAXIMUM_SUPPORTED_PROBE_CORE - 1)

\* C28: for all parameter values that pass classification, whenever
\* map_probe_core is invoked every subscript of the 15-slot arrays lies in
\* 0..14: the INDEX of every core (calculated_ip_core_width[m->index],
\* ip_address[m->index]), every probe recorded (ip_probe_width[probe],
\* probe_to_core_map[probe]) and every interface counted (below Cores, at
\* most 15); and every ocla_modules[i] of map_probe_core has i below the
\* number of cores found.
C28_SubscriptsInRange ==
  MapInvoked =>
    LET sub == TheSubsystem
        native_core == IF sub.mode = "NATIVE" THEN sub.cores ELSE sub.cores - 1
    IN /\ sub.cores \in 1..MAXIMUM_SUPPORTED_PROBE_CORE
       /\ \A k \in 1..Len(ClassifiedCores) :
            /\ ClassifiedCores[k].index \in ArraySlots
            /\ \A j \in 1..Len(ClassifiedCores[k].probe_order) :
                 ClassifiedCores[k].probe_order[j] \in ArraySlots
       /\ IsNativeMode(sub.mode) =>
            /\ native_core - 1 \in ArraySlots
            /\ native_core <= Len(ClassifiedCores)
       /\ \A p \in 1..MAXIMUM_SUPPORTED_PROBE_CORE :
            sub.probe_to_core_map[p].core < Len(ClassifiedCores)

C28_Witness ==
  /\ MapInvoked
  /\ TheSubsystem.mode = "NATIVE_AXI"
  /\ Len(ClassifiedCores) = TheSubsystem.cores
  /\ \E p \in 2..MAXIMUM_SUPPORTED_PROBE_CORE :
       TheSubsystem.probe_to_core_map[p].core = Len(ClassifiedCores) - 2
  /\ \E k \in 1..Len(ClassifiedCores) : Len(ClassifiedCores[k].probe_order) >= 2

(***************************************************************************)
(* Parameter claims (under SpecParam).                                     *)
(***************************************************************************)
\* set_param was called and has returned or thrown
ParamDecoded == pc \in {"p_returned", "p_thrown"}

\* the type of the slot the parameter goes to
SlotType ==
  IF sp.name \in DOMAIN ParamModule.params
    THEN ParamModule.params[sp.name].type ELSE "none"

SlotValue == Load(sp.out.ip, ParamModule.params[sp.name].ptr)

\* the unsigned value of a fully defined constant, on limbs
ConstLimbs(bits) ==
  [k \in 1..4 |->
     IF Len(bits) <= 16 * (k - 1) THEN 0
     ELSE BitsValue(bits, 16 * (k - 1),
            IF Len(bits) >= 16 * k THEN 16 ELSE Len(bits) - 16 * (k - 1))]

EscapeFree(t) ==
  \A i \in 0..(Len(t) - 1) :
    CharAt(t, i) \notin {"\n", "\t", "\"", "\\"} /\ CharCode(CharAt(t, i)) >= 32

\* C17 as claimed: a fully defined constant of width 1..32 for a uint32_t
\* slot, or 1..64 for a uint64_t slot, written by dump_const and read by
\* set_param, is accepted and stored with its unsigned value; a string
\* constant without escape characters is stored as the original string.
C17_Original ==
  (ParamDecoded /\ sp.const # <<>>) =>
    /\ (/\ ~sp.const[1].string
        /\ \/ SlotType = "PARAM_IS_UINT32" /\ Len(sp.const[1].bits) \in 1..32
           \/ SlotType = "PARAM_IS_UINT64" /\ Len(sp.const[1].bits) \in 1..64)
         => /\ pc = "p_returned" /\ sp.out.status
            /\ SlotValue = U64(ConstLimbs(sp.const[1].bits))
    /\ (sp.const[1].string /\ SlotType = "PARAM_IS_STR"
        /\ EscapeFree(sp.const[1].str))
         => /\ pc = "p_returned" /\ sp.out.status
            /\ SlotValue = sp.const[1].str

\* a literal with an apostrophe as the claim accepts it: a decimal bit count
\* equal to the number of characters after the apostrophe, all of them 0 or
\* 1, their number between 1 and the width of the slot
SizedBinary(value, type) ==
  LET index == FindFrom(value, "'", 0)
      count == SubSeq(value, 1, index)
      digits == SubSeq(value, index + 2, Len(value))
  IN /\ count # "" /\ ~HasOtherThan(count, DecDigits)
     /\ StripZeros(count) = ToString(Len(digits))
     /\ ~HasOtherThan(digits, BinDigits)
     /\ Len(digits) >= 1
     /\ Len(digits) <= (IF type = "PARAM_IS_UINT32" THEN 32 ELSE 64)

C20_Original == pc # "p_thrown"

\* the literal is a non-empty string of decimal digits
PlainDecimal(t) ==
  /\ t # ""
  /\ \A i \in 0..(Len(t) - 1) :
       CharAt(t, i) \in {"0", "1", "2", "3", "4", "5", "6", "7", "8", "9"}

\* the value of a plain decimal is below 2^64
Within64Bits(t) ==
  \/ Len(StripZeros(t)) < 20
  \/ /\ Len(StripZeros(t)) = 20
     /\ ~DigitsGreater(StripZeros(t), "18446744073709551615")

\* the value of a plain decimal modulo 2^64, digit after digit, on limbs
RECURSIVE DecimalValue(_)
DecimalValue(t) ==
  IF t = "" THEN ZeroLimbs
  ELSE MulAdd(DecimalValue(SubSeq(t, 1, Len(t) - 1)), 10,
              DigitValue(CharAt(t, Len(t) - 1)))

FragmentWidthsOf(m) == [k \in 1..Len(m.probes) |-> m.probes[k].width]

\* the fragments can be cut, front to back, into one group per entry of
\* probe_order, group i holding exactly probe_widths[probe_order[i]] bits;
\* cut[i] is the number of fragments in the groups 1..i
Cuttable(m, probe_widths) ==
  \E cut \in [0..Len(m.probe_order) -> 0..Len(m.probes)] :
    /\ cut[0] = 0
    /\ cut[Len(m.probe_order)] = Len(m.probes)
    /\ \A i \in 1..Len(m.probe_order) :
         /\ cut[i - 1] <= cut[i]
         /\ SumSeq(SubSeq(FragmentWidthsOf(m), cut[i - 1] + 1, cut[i]))
              = At(probe_widths, m.probe_order[i])

\* C21: for a non-AXI core finalize returns success if and only if the
\* fragment widths sum to NO_OF_PROBES and the fragments can be cut, front
\* to back, into consecutive groups, one per entry p of probe_order in
\* order, each summing to exactly probe_widths[p], nothing left over and
\* nothing missing.
C21_FinalizeIffAligned ==
  pc = "f_done" =>
    (fin.out.status <=>
       /\ SumSeq(FragmentWidthsOf(fin.m)) = fin.m.probes_count
       /\ Cuttable(fin.m, fin.probe_widths))

C21_Witness ==
  /\ pc = "f_done" /\ fin.out.status
  /\ FragmentWidthsOf(fin.m) = << 2, 1, 1 >>
  /\ fin.m.probe_order = << 2, 0 >>
  /\ fin.probe_widths[3] = 3 /\ fin.probe_widths[1] = 1

(***************************************************************************)
(* Write-once mapping (under SpecMap).                                     *)
(***************************************************************************)
\* what map_probe_core may write: every probe_order, the probe_to_core_map
\* and the calculated_ip_core_width
Mapping(sub, mods) ==
  [probe_order |-> [k \in 1..Len(mods) |-> mods[k].probe_order],
   probe_to_core_map |-> sub.probe_to_core_map,
   calculated_ip_core_width |-> sub.calculated_ip_core_width]

\* some core has a probe_order or a calculated width at its INDEX
StartsMapped(sub, mods) ==
  \E k \in 1..Len(mods) :
    \/ Len(mods[k].probe_order) > 0
    \/ At(sub.calculated_ip_core_width, mods[k].index) > 0

\* C26: map_probe_core invoked while some core already has a non-empty
\* probe_order or a non-zero calculated_ip_core_width at its INDEX returns
\* failure and leaves every probe_order, every probe_to_core_map entry and
\* every calculated_ip_core_width as it was; in AXI mode map_probe_core
\* invoked on a fresh state returns success and leaves them all unchanged.
C26_WriteOnce ==
  /\ (pc = "m_again" /\ StartsMapped(mp.out.sub, mp.out.mods)) =>
       /\ ~mp.again.status
       /\ Mapping(mp.again.sub, mp.again.mods) = Mapping(mp.out.sub, mp.out.mods)
  /\ (pc # "m_start" /\ mp.sub.mode = "AXI") =>
       /\ ~StartsMapped(mp.sub, mp.mods)
       /\ mp.out.status
       /\ Mapping(mp.out.sub, mp.out.mods) = Mapping(mp.sub, mp.mods)

C26_Witness ==
  /\ pc = "m_again"
  /\ mp.out.status /\ ~mp.again.status
  /\ Len(mp.out.mods) = 2
  /\ mp.out.mods[1].probe_order = << 1 >>
  /\ mp.again.mods[1].probe_order = << 1 >>
  /\ mp.again.sub.calculated_ip_core_width = mp.out.sub.calculated_ip_core_width

(***************************************************************************)
(* Termination of the walk (under SpecHierFair).                           *)
(***************************************************************************)
\* the modules holding a cell of one of the types in names
ParentsOf(d, names) ==
  {d.modules[i].name : i \in {i1 \in 1..Len(d.modules) :
     \E j \in 1..Len(d.modules[i1].cells) : d.modules[i1].cells[j].type \in names}}

\* the modules reached from names by n steps of ParentsOf, or fewer
RECURSIVE AncestorsWithin(_, _, _)
AncestorsWithin(d, names, n) ==
  IF n = 0 THEN {}
  ELSE ParentsOf(d, names) \cup AncestorsWithin(d, ParentsOf(d, names), n - 1)

\* the modules that instantiate name, directly or through other modules
StrictAncestors(d, name) == AncestorsWithin(d, {name}, Len(d.modules))

\* C27: on a design whose instantiation graph is acyclic the walk of
\* check_unique_ocla_debug_subsystem terminates: every iteration either ends
\* the walk or moves the target to a strict ancestor of the current target,
\* the walk makes at most as many iterations as the design has modules, and
\* the function returns.
C27_WalkTerminates ==
  /\ [][(hw'.level # hw.level) =>
          \/ ~hw'.running
          \/ /\ hw'.module_name \in StrictAncestors(design, hw.module_name)
             /\ hw'.module_name # hw.module_name
             /\ hw.module_name \notin StrictAncestors(design, hw'.module_name)]_vars
  /\ [](hw.level <= Len(design.modules))
  /\ <>(pc = "h_done")

C27_Witness ==
  /\ pc = "h_done"
  /\ hw.status
  /\ hw.level = NumMods - 1
  /\ hw.module_name = TopName

====
